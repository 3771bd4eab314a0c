SPECIFICATION FairSpec
CONSTANTS
  Tracer = {"ebpf", "ebpf_block", "ebpf_sched"}
  Sampler = {"cpu"}
  OutCap = 1
  StatusCap = 6
  Iface = {i1, i2}
  Plans <- Cases
  MaxExtra = 3
PROPERTIES ShutdownBounded
