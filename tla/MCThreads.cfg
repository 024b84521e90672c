CONSTANTS
  MaxThreads = 3
  Few = 3
  Programs = {"wait_thread", "num_thread", "str_thread", "struct_thread", "struct_thread_stack", "struct_main", "thread", "stack_size", "hello", "thread_cancel", "thread_cancel_count", "thread_cancel_malloc", "break_limit", "break_limit_2", "break_limit_3", "while_overflow_thread", "while_thread", "create_DETACHED", "test_dead_threads", "measure_tail", "thread_mem", "destroy_main_stack", "bench_lock", "signal", "handler_signal"}
SPECIFICATION Spec
INVARIANTS AccessLive NothingLost ClaimsTrue SignalsRouted
PROPERTIES Returns
CHECK_DEADLOCK FALSE
