SPECIFICATION Spec
CONSTANTS
  Benchmarks <- MCBenchmarks
  VariantsOf <- VariantTable
  Baselines = {"t_naive"}
  Optimized = {"t_tiled"}
  CpuBackends = {"Native"}
  GpuBackends = {"CUDA", "OpenCL"}
  TopSystems = 2
  Datasets <- DataFiles
  Hosts = {"a", "b_test"}
  TestHosts = {"b_test"}
  MaxFetches = 2
  Buffers <- MCBuffers
  Uniform = "params"
  MaxRuns = 3
  Cells = {"a", "b"}
  TooltipOnTab = TRUE
  MaxInputs = 5
  Names = {"one"}
  Histories <- MCHistories
  MaxMessages = 6
  Titles = {"f", "g", "h", "x"}
  Extensions = {"ipynb", "py", "json", "txt"}
  Drops <- MCDrops
  Stores <- MCStores
  MaxEvents = 3
  Files <- MCFiles
  Typed = "t"
  MaxCells = 4
  MaxSteps = 4
  MaxRequests = 2
  MaxOutputs = 3
  MaxClears = 1
  Unset = Unset
  UnknownDevice = "unknown"
INVARIANTS SingleShowsSelection ChartsAreMeasured
           VerdictIsOfLastClick DispatchedRunsRelease
           CleanIsTheFile OneSlide OutputsKept
           NothingPopsUpUnasked MessagesLastTheirTime ButtonsKeepTheirRow
PROPERTIES UndeleteInPlace KeepsText
CHECK_DEADLOCK FALSE
