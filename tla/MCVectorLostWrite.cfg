CONSTANTS
    c1 = c1
    c2 = c2
    cuda = cuda
    hip = hip
    opencl = opencl
    native = native
    interpreter = interpreter
    NoDevice = NoDevice
    Cells <- MCCells
    Jit <- MCJit
    Native <- MCNone
    Interpreter <- MCInterpreter
    ZeroCopy <- MCZeroCopy
    Disciplined = FALSE
SPECIFICATION Spec
INVARIANT ReadsCurrent
