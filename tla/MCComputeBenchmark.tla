-------------------------- MODULE MCComputeBenchmark --------------------------
(* Machines with three cores, as their differences matter to the run.         *)
EXTENDS ComputeBenchmark

Plain == [threads |-> 0, selected |-> -1, perf |-> {0, 1, 2}, sockets |-> <<<<0, 1, 2>>>>,
          usable |-> {0, 1, 2}, windows |-> FALSE, server |-> FALSE, warm |-> TRUE,
          high |-> {}, unreadable |-> {}, refused |-> {},
          freq |-> TRUE, simd |-> FALSE, pinSt |-> TRUE, pinWorkers |-> TRUE]

MCConfs == {
  Plain,
  (* hybrid, cores 1 and 2 are the fast ones; no sampler *)
  [Plain EXCEPT !.perf = {1, 2}, !.freq = FALSE],
  (* a Windows server with two sockets, the second one selected *)
  [Plain EXCEPT !.sockets = <<<<0>>, <<1, 2>>>>, !.selected = 1, !.threads = 3,
                !.windows = TRUE, !.server = TRUE, !.high = {"scheme"}, !.simd = TRUE],
  (* the same machine under Linux *)
  [Plain EXCEPT !.sockets = <<<<0>>, <<1, 2>>>>, !.selected = 1, !.simd = TRUE],
  (* a Windows server with one socket, one thread *)
  [Plain EXCEPT !.threads = 1, !.simd = TRUE, !.windows = TRUE, !.server = TRUE, !.refused = {"thread_priority"},
                !.unreadable = {"process_qos", "process_priority"}],
  (* a container that may use core 2 only, no warm-up *)
  [Plain EXCEPT !.usable = {2}, !.threads = 2, !.warm = FALSE, !.freq = FALSE],
  (* more threads than cores *)
  [Plain EXCEPT !.threads = 4, !.freq = FALSE],
  (* affinity switched off *)
  [Plain EXCEPT !.threads = 2, !.pinSt = FALSE, !.pinWorkers = FALSE, !.simd = TRUE]
}

\* A server that refuses to raise the main thread's priority when it is first asked.
MCRefusing == {[Plain EXCEPT !.threads = 1, !.warm = FALSE, !.freq = FALSE,
                             !.windows = TRUE, !.server = TRUE, !.refused = {"thread_priority"}]}
=============================================================================
