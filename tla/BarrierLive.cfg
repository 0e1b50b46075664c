\* barrier_example.c on a smaller scale: each thread calls once, the threshold
\* is half the number of threads, main joins them; with spurious wakeups.
SPECIFICATION FairSpec
CONSTANTS
  Threads = {t1, t2, t3, t4, t5, t6}
  Main = main
  Nobody = nobody
  Threshold = 3
  MaxCalls = 1
  Spurious = TRUE
  JoinFirst = TRUE
PROPERTIES
  AllReturn
