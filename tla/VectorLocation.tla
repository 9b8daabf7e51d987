--------------------------- MODULE VectorLocation ---------------------------
(***************************************************************************)
(* One Sarek vector (sarek/core/Vector.ml) moving between the host and the *)
(* devices that run kernels on it (sarek/core/Transfer.ml,                 *)
(* sarek/execute/Execute.ml).  vec.location says which copy to trust; every*)
(* operation below reads it to decide whether to copy, and rewrites it.    *)
(*                                                                         *)
(* A copy is abstracted to the set of its cells that hold the value last   *)
(* written to them, by the program or by a kernel: a copy is up to date    *)
(* when it is Cells, a write takes the written cells out of every other    *)
(* copy, and a transfer copies the set.  The values themselves never       *)
(* matter, so nothing has to be counted.                                   *)
(***************************************************************************)
CONSTANTS
    Cells,        \* the elements of the vector
    Jit,          \* devices whose kernels write the device's buffer
    Native,       \* devices whose kernels write the host storage (kernel_set)
    Interpreter,  \* devices whose kernels write it through Vector.set
    ZeroCopy,     \* devices whose buffer for this vector is the host storage
    NoDevice,
    Disciplined   \* whether the program keeps to the two rules named below

Devices == Jit \union Native \union Interpreter

ASSUME VectorAssumption ==
    /\ NoDevice \notin Devices
    /\ ZeroCopy \subseteq Devices
    /\ Jit \intersect (Native \union Interpreter) = {}
    /\ Native \intersect Interpreter = {}
    /\ Disciplined \in BOOLEAN

VARIABLES
    vec,       \* location, host storage, device buffers, device_buffers' keys
    autoSync,  \* vec.auto_sync
    autoMode   \* Transfer.auto_mode

vars == <<vec, autoSync, autoMode>>

-----------------------------------------------------------------------------
(* Locations *)

OnCpu == [in |-> "CPU", dev |-> NoDevice]
In(where, d) == [in |-> where, dev |-> d]

DeviceAhead == {"GPU", "Stale_CPU"}
OnDevice == DeviceAhead \union {"Both"}

Location == {OnCpu} \union [in : OnDevice \union {"Stale_GPU"}, dev : Devices]

Vector == [location : Location, host : SUBSET Cells,
           buffer : [Devices -> SUBSET Cells], allocated : SUBSET Devices]

(* What device d sees of the vector. *)
CopyOf(v, d) == IF d \in ZeroCopy THEN v.host ELSE v.buffer[d]

(* The program writes the cells W of the host storage... *)
HostWritten(v, W) ==
    [v EXCEPT !.host = @ \union W, !.buffer = [d \in Devices |-> @[d] \ W]]

(* ...a kernel those of device d's buffer. *)
DeviceWritten(v, d, W) ==
    IF d \in ZeroCopy
    THEN HostWritten(v, W)
    ELSE [v EXCEPT !.host = @ \ W,
                   !.buffer = [e \in Devices |->
                                 IF e = d THEN @[e] \union W ELSE @[e] \ W]]

\* (Mutation: the location is left as it is.)
GpuStaysMarked(v) == v

(* set, unsafe_set, fill: "mark GPU as stale if we had synced data". *)
MarkGpuStale(v) ==
    IF v.location.in \in {"Both", "GPU"}
    THEN [v EXCEPT !.location = In("Stale_GPU", v.location.dev)]
    ELSE v

-----------------------------------------------------------------------------
(* Transfers *)

CopyDeviceToHost(v, d) ==
    [v EXCEPT !.host = CopyOf(v, d), !.location = In("Both", d)]

EnsureBuffer(v, d) == [v EXCEPT !.allocated = @ \union {d}]

HostToDevice(v, d) ==
    [v EXCEPT !.buffer[d] = IF d \in ZeroCopy THEN @ ELSE v.host,
              !.location = In("Both", d)]

(* to_device starts by bringing home what only another device holds. *)
BroughtHome(v, d) ==
    IF v.location.in \in DeviceAhead /\ v.location.dev # d
    THEN CopyDeviceToHost(v, v.location.dev)
    ELSE v

ToDevice(v, d) ==
    LET w == BroughtHome(v, d)
    IN  IF w.location.in \in OnDevice /\ w.location.dev = d
        THEN w
        ELSE HostToDevice(EnsureBuffer(w, d), d)

ToCpu(v, force) ==
    IF v.location.in \in DeviceAhead \/ (force /\ v.location.in = "Both")
    THEN CopyDeviceToHost(v, v.location.dev)
    ELSE v

Sync(v) ==
    IF v.location.in = "Stale_GPU"
    THEN ToDevice(v, v.location.dev)
    ELSE ToCpu(v, FALSE)

(* Reading an element: the callback declines when auto mode is off. *)
EnsureCpuSync(v) ==
    IF autoSync /\ v.location.in = "Stale_CPU" /\ autoMode
    THEN ToCpu(v, FALSE)
    ELSE v

LocationAfterFree(l, d) == IF l.dev = d THEN OnCpu ELSE l

FreeBuffer(v, d) ==
    IF d \notin v.allocated
    THEN v
    ELSE LET w == IF v.location.in \in DeviceAhead /\ v.location.dev = d
                  THEN CopyDeviceToHost(v, d)
                  ELSE v
         IN  [w EXCEPT !.buffer[d] = {},
                       !.location = LocationAfterFree(@, d),
                       !.allocated = @ \ {d}]

FreeAllBuffers(v) ==
    [location |-> OnCpu,
     host |-> IF v.location.in \in DeviceAhead
              THEN CopyOf(v, v.location.dev)
              ELSE v.host,
     buffer |-> [d \in Devices |-> {}],
     allocated |-> {}]

-----------------------------------------------------------------------------
(* A kernel launch: transfer, run, mark. *)

\* (Mutation: the vectors of the launch are not marked.)
NothingMarked(v, d) == v

MarkVectorsStale(v, d) ==
    IF v.location.in = "Both"
    THEN [v EXCEPT !.location = In("Stale_CPU", d)]
    ELSE v

Launched(v, d, W) ==
    LET u == ToDevice(v, d)
    IN  CASE d \in Jit         -> MarkVectorsStale(DeviceWritten(u, d, W), d)
          [] d \in Native      -> HostWritten(u, W)
          [] d \in Interpreter -> IF W = {}
                                  THEN u
                                  ELSE MarkGpuStale(HostWritten(u, W))

-----------------------------------------------------------------------------
(* The program *)

(* A fresh vector: on the host, or created for a device (create ~dev) or    *)
(* handed to one (Vector.partition), which is to be given the host's data.  *)
Init ==
    /\ vec \in [location : {OnCpu} \union [in : {"Stale_GPU"}, dev : Devices],
                host : {Cells},
                buffer : {[d \in Devices |-> {}]},
                allocated : {{}}]
    /\ autoSync = TRUE
    /\ autoMode = TRUE

Becomes(v) == vec' = v /\ UNCHANGED <<autoSync, autoMode>>

Get == Becomes(EnsureCpuSync(vec))

(* The first rule of a disciplined program: it writes an element only after *)
(* it has read the vector back, never while the host copy is stale.         *)
MayWrite == Disciplined => vec.location.in \notin DeviceAhead

Write(W) ==
    /\ MayWrite
    /\ Becomes(MarkGpuStale(HostWritten(vec, W)))

Set == \E c \in Cells : Write({c})

Fill == Write(Cells)

(* The second: it never forces a copy back from a native device that keeps  *)
(* a buffer of its own, which no native kernel has written.                 *)
MayForce ==
    Disciplined =>
        ~ (vec.location.in = "Both" /\ vec.location.dev \in Native \ ZeroCopy)

Upload(d) == Becomes(ToDevice(vec, d))

Download(force) ==
    /\ force => MayForce
    /\ Becomes(ToCpu(vec, force))

Synchronise == Becomes(Sync(vec))

Free(d) == Becomes(FreeBuffer(vec, d))

FreeAll == Becomes(FreeAllBuffers(vec))

RunVectors(d, W) == Becomes(Launched(vec, d, W))

SetAutoSync ==
    /\ autoSync' \in BOOLEAN
    /\ UNCHANGED <<vec, autoMode>>

SetAuto ==
    /\ autoMode' \in BOOLEAN
    /\ UNCHANGED <<vec, autoSync>>

Next ==
    \/ Get \/ Set \/ Fill
    \/ \E d \in Devices : Upload(d) \/ Free(d)
    \/ \E force \in BOOLEAN : Download(force)
    \/ Synchronise
    \/ FreeAll
    \/ \E d \in Devices, W \in SUBSET Cells : RunVectors(d, W)
    \/ SetAutoSync \/ SetAuto

Spec == Init /\ [][Next]_vars

-----------------------------------------------------------------------------
(* Properties *)

(* The vector is well formed, and the only buffers with contents are those *)
(* the vector's table of device buffers knows of.                          *)
TypeOK ==
    /\ vec \in Vector
    /\ \A d \in Devices \ vec.allocated : vec.buffer[d] = {}
    /\ autoSync \in BOOLEAN
    /\ autoMode \in BOOLEAN

(* The copy the location tells every operation to trust is up to date, in   *)
(* every cell, whichever devices ran, synchronised and freed before: the    *)
(* host's for CPU, Stale_GPU and Both, the device's for Stale_CPU, and for   *)
(* Both the device's too, unless it is a native device, whose kernels write *)
(* past the buffer.  No operation leaves a vector "on the GPU" only, a      *)
(* location that element reads do not synchronise.                          *)
Authoritative ==
    LET d == vec.location.dev
    IN  /\ vec.location.in # "GPU"
        /\ vec.location.in \in {"CPU", "Stale_GPU", "Both"} => vec.host = Cells
        /\ vec.location.in = "Both" /\ d \notin Native => CopyOf(vec, d) = Cells
        /\ vec.location.in = "Stale_CPU" => d \in Jit /\ CopyOf(vec, d) = Cells

(* With auto-sync on, an element read returns what was last written to it,  *)
(* by the program or by a kernel on any device (Vector.get).                *)
ReadsCurrent == autoSync /\ autoMode => EnsureCpuSync(vec).host = Cells

(* A kernel launched on any device reads what was last written, by the      *)
(* program or by a kernel of another device (Transfer.to_device).           *)
InputsCurrent ==
    \A d \in Devices :
        LET u == ToDevice(vec, d)
        IN  IF d \in Jit THEN CopyOf(u, d) = Cells ELSE u.host = Cells

(* A vector is never said to be on a device that holds no buffer of it: the *)
(* next transfer would fail with "no device buffer to transfer from".       *)
BufferHeld ==
    vec.location.in \in OnDevice => vec.location.dev \in vec.allocated

=============================================================================
