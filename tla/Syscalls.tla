------------------------------ MODULE Syscalls ------------------------------
(***************************************************************************)
(* The way of a system call: the stubs of lib/syscall.c put a number and up *)
(* to five arguments into registers, trap_dispatch takes them out again,   *)
(* and syscall() of kern/trap/syscall.c calls the handler with them.  The  *)
(* arguments are known by the names of the formal parameters, so that it   *)
(* can be seen what arrives where.                                         *)
(***************************************************************************)
EXTENDS Integers, Sequences, TLC

\* The stub, the number it passes, what it passes and whether it returns the result.
Stub(num, args, returns) == [num |-> num, args |-> args, returns |-> returns]

Stubs ==
  [sys_cputs |-> Stub("cputs", <<"s", "len", "printProgName", "color">>, FALSE),
   sys_cgetc |-> Stub("cgetc", <<>>, TRUE),
   sys_lock_cons |-> Stub("lock_cons", <<>>, FALSE),
   sys_unlock_cons |-> Stub("unlock_cons", <<>>, FALSE),
   __sys_allocate_page |-> Stub("allocate_page", <<"va", "perm">>, TRUE),
   __sys_map_frame |-> Stub("map_frame", <<"srcenv", "srcva", "dstenv", "dstva", "perm">>, TRUE),
   __sys_unmap_frame |-> Stub("unmap_frame", <<"va">>, TRUE),
   sys_calculate_required_frames |-> Stub("calc_req_frames", <<"start_virtual_address", "size">>, TRUE),
   sys_calculate_free_frames |-> Stub("calc_free_frames", <<>>, TRUE),
   sys_calculate_modified_frames |-> Stub("calc_modified_frames", <<>>, TRUE),
   sys_calculate_notmod_frames |-> Stub("calc_notmod_frames", <<>>, TRUE),
   sys_pf_calculate_allocated_pages |-> Stub("pf_calc_allocated_pages", <<>>, TRUE),
   sys_calculate_pages_tobe_removed_ready_exit |->
     Stub("calculate_pages_tobe_removed_ready_exit", <<"WS_or_MEMORY_flag">>, TRUE),
   sys_scarce_memory |-> Stub("scarce_memory", <<>>, FALSE),
   sys_cputc |-> Stub("cputc", <<"c">>, FALSE),
   sys_clear_ffl |-> Stub("clearFFL", <<>>, FALSE),
   sys_create_shared_object |->
     Stub("create_shared_object", <<"shareName", "size", "isWritable", "virtual_address">>, TRUE),
   sys_size_of_shared_object |-> Stub("get_size_of_shared_object", <<"ownerID", "shareName">>, TRUE),
   sys_get_shared_object |-> Stub("get_shared_object", <<"ownerID", "shareName", "virtual_address">>, TRUE),
   sys_delete_shared_object |-> Stub("free_shared_object", <<"sharedObjectID", "startVA">>, TRUE),
   sys_create_env |-> Stub("create_env",
     <<"programName", "page_WS_size", "LRU_second_list_size", "percent_WS_pages_to_remove">>, TRUE)]

MoreStubs ==
  [sys_run_env |-> Stub("run_env", <<"envId">>, FALSE),
   sys_destroy_env |-> Stub("destroy_env", <<"envid">>, TRUE),
   sys_getenvid |-> Stub("getenvid", <<>>, TRUE),
   sys_getenvindex |-> Stub("getenvindex", <<>>, TRUE),
   sys_getparentenvid |-> Stub("getparentenvid", <<>>, TRUE),
   sys_exit_env |-> Stub("exit_env", <<>>, FALSE),
   sys_get_virtual_time |-> Stub("get_virtual_time", <<"low", "hi">>, FALSE),
   sys_move_user_mem |->
     Stub("move_user_mem", <<"src_virtual_address", "dst_virtual_address", "size">>, FALSE),
   sys_rcr2 |-> Stub("rcr2", <<>>, TRUE),
   sys_bypassPageFault |-> Stub("bypassPageFault", <<"instrLength">>, FALSE),
   rsttst |-> Stub("rsttst", <<>>, FALSE),
   tst |-> Stub("testNum", <<"n", "v1", "v2", "c", "inv">>, FALSE),
   chktst |-> Stub("chktst", <<"n">>, FALSE),
   inctst |-> Stub("inctst", <<>>, FALSE),
   gettst |-> Stub("gettst", <<>>, TRUE),
   sys_get_uheap_strategy |-> Stub("get_heap_strategy", <<>>, TRUE),
   sys_set_uheap_strategy |-> Stub("set_heap_strategy", <<"heapStrategy">>, FALSE),
   sys_check_LRU_lists |-> Stub("check_LRU_lists", <<"active_list_content", "second_list_content",
     "actual_active_list_size", "actual_second_list_size">>, TRUE),
   sys_check_LRU_lists_free |-> Stub("check_LRU_lists_free", <<"list_content", "list_size">>, TRUE),
   sys_check_WS_list |-> Stub("check_WS_list",
     <<"WS_list_content", "actual_WS_list_size", "last_WS_element_content", "chk_in_order">>, TRUE),
   sys_allocate_chunk |-> Stub("allocate_chunk_in_mem", <<"virtual_address", "size", "perms">>, FALSE),
   sys_utilities |-> Stub("utilities", <<"utilityName", "value">>, FALSE),
   sys_get_optimal_num_faults |-> Stub("get_optimal_num_faults", <<>>, TRUE),
   sys_free_user_mem |-> Stub("free_user_mem", <<"virtual_address", "size">>, FALSE),
   sys_allocate_user_mem |-> Stub("allocate_user_mem", <<"virtual_address", "size">>, FALSE),
   sys_env_set_priority |-> Stub("env_set_priority", <<"envID", "priority">>, FALSE)]

AllStubs == Stubs @@ MoreStubs
-----------------------------------------------------------------------------
(* The numbers: the position in the enumeration of inc/syscall.h.           *)

SyscallNames ==
  <<"cputs", "cputc", "cgetc", "lock_cons", "unlock_cons", "getenvid", "getenvindex", "getparentenvid",
    "allocate_page", "map_frame", "unmap_frame", "calc_req_frames", "calc_free_frames",
    "calc_modified_frames", "calc_notmod_frames", "pf_calc_allocated_pages",
    "calculate_pages_tobe_removed_ready_exit", "scarce_memory", "allocate_chunk_in_mem", "move_user_mem",
    "clearFFL", "create_shared_object", "get_size_of_shared_object", "get_shared_object",
    "free_shared_object", "create_env", "run_env", "destroy_env", "exit_env", "get_virtual_time", "rcr2",
    "bypassPageFault", "testNum", "rsttst", "chktst", "inctst", "gettst", "get_heap_strategy",
    "set_heap_strategy", "check_LRU_lists", "check_LRU_lists_free", "check_WS_list", "utilities",
    "get_optimal_num_faults", "allocate_user_mem", "free_user_mem", "env_set_priority", "NSYSCALLS">>

Num(name) == (CHOOSE i \in 1 .. Len(SyscallNames) : SyscallNames[i] = name) - 1

\* Mutant: the registers of the second and third argument are exchanged.
TrapInSwapped(stub) ==
  [eax |-> Num(stub.num)] @@
  [r \in {"edx", "ebx", "ecx", "edi", "esi"} |->
     LET i == CHOOSE k \in 1 .. 5 : <<"edx", "ebx", "ecx", "edi", "esi">>[k] = r
     IN IF i <= Len(stub.args) THEN stub.args[i] ELSE "zero"]

TrapIn(stub) ==
  [eax |-> Num(stub.num)] @@
  [r \in {"edx", "ecx", "ebx", "edi", "esi"} |->
     LET i == CHOOSE k \in 1 .. 5 : <<"edx", "ecx", "ebx", "edi", "esi">>[k] = r
     IN IF i <= Len(stub.args) THEN stub.args[i] ELSE "zero"]

\* trap_dispatch calls syscall(eax, edx, ecx, ebx, edi, esi).
TrapOut(regs) == [num |-> regs.eax, a |-> <<regs.edx, regs.ecx, regs.ebx, regs.edi, regs.esi>>]
-----------------------------------------------------------------------------
(* kern/trap/syscall.c: the handlers with their parameters, and the switch. *)

Handlers ==
  [sys_cputs |-> <<"s", "len", "printProgName", "color">>, sys_cputc |-> <<"c">>, sys_cgetc |-> <<>>,
   sys_lock_cons |-> <<>>, sys_unlock_cons |-> <<>>,
   __sys_allocate_page |-> <<"va", "perm">>,
   __sys_map_frame |-> <<"srcenvid", "srcva", "dstenvid", "dstva", "perm">>,
   __sys_unmap_frame |-> <<"va">>,
   sys_calculate_required_frames |-> <<"start_virtual_address", "size">>,
   sys_calculate_free_frames |-> <<>>, sys_calculate_modified_frames |-> <<>>,
   sys_calculate_notmod_frames |-> <<>>, sys_pf_calculate_allocated_pages |-> <<>>,
   sys_calculate_pages_tobe_removed_ready_exit |-> <<"WS_or_MEMORY_flag">>,
   sys_scarce_memory |-> <<>>, sys_clearFFL |-> <<>>,
   sys_free_user_mem |-> <<"virtual_address", "size">>,
   sys_allocate_user_mem |-> <<"virtual_address", "size">>,
   sys_allocate_chunk |-> <<"virtual_address", "size", "perms">>,
   sys_move_user_mem |-> <<"src_virtual_address", "dst_virtual_address", "size">>,
   sys_get_heap_strategy |-> <<>>, sys_set_uheap_strategy |-> <<"heapStrategy">>,
   sys_create_shared_object |-> <<"shareName", "size", "isWritable", "virtual_address">>,
   sys_size_of_shared_object |-> <<"ownerID", "shareName">>,
   sys_get_shared_object |-> <<"ownerID", "shareName", "virtual_address">>,
   sys_delete_shared_object |-> <<"sharedObjectID", "startVA">>,
   sys_getenvid |-> <<>>, sys_getenvindex |-> <<>>, sys_getparentenvid |-> <<>>,
   sys_destroy_env |-> <<"envid">>, sys_exit_env |-> <<>>,
   sys_create_env |-> <<"programName", "page_WS_size", "LRU_second_list_size",
                        "percent_WS_pages_to_remove">>,
   sys_run_env |-> <<"envId">>, sys_get_optimal_num_faults |-> <<>>,
   sys_get_virtual_time |-> <<>>, sys_rcr2 |-> <<>>, sys_bypassPageFault |-> <<"instrLength">>,
   sys_env_set_priority |-> <<"envID", "priority">>,
   rsttst |-> <<>>, inctst |-> <<>>, gettst |-> <<>>, chktst |-> <<"n">>,
   tst |-> <<"n", "v1", "v2", "c", "inv">>, sys_utilities |-> <<"utilityName", "value">>,
   sys_check_LRU_lists |-> <<"active_list_content", "second_list_content", "actual_active_list_size",
                             "actual_second_list_size">>,
   sys_check_LRU_lists_free |-> <<"list_content", "list_size">>,
   sys_check_WS_list |-> <<"WS_list_content", "actual_WS_list_size", "last_WS_element_content",
                           "chk_in_order">>]

\* The cases whose handler has another name than the number, the others prefix it.
Renamed ==
  ("allocate_page" :> "__sys_allocate_page") @@ ("map_frame" :> "__sys_map_frame") @@
  ("unmap_frame" :> "__sys_unmap_frame") @@ ("calc_req_frames" :> "sys_calculate_required_frames") @@
  ("calc_free_frames" :> "sys_calculate_free_frames") @@
  ("calc_modified_frames" :> "sys_calculate_modified_frames") @@
  ("calc_notmod_frames" :> "sys_calculate_notmod_frames") @@
  ("pf_calc_allocated_pages" :> "sys_pf_calculate_allocated_pages") @@
  ("allocate_chunk_in_mem" :> "sys_allocate_chunk") @@
  ("get_size_of_shared_object" :> "sys_size_of_shared_object") @@
  ("free_shared_object" :> "sys_delete_shared_object") @@
  ("testNum" :> "tst") @@ ("rsttst" :> "rsttst") @@ ("chktst" :> "chktst") @@ ("inctst" :> "inctst") @@
  ("gettst" :> "gettst") @@ ("set_heap_strategy" :> "sys_set_uheap_strategy")

\* The cases that end with "return 0" and not with the result of the handler.
ReturnZero ==
  {"env_set_priority", "allocate_user_mem", "free_user_mem", "cputs", "cputc", "lock_cons",
   "unlock_cons", "scarce_memory", "allocate_chunk_in_mem", "map_frame", "clearFFL", "run_env",
   "exit_env", "get_virtual_time", "move_user_mem", "bypassPageFault", "rsttst", "inctst", "chktst",
   "testNum", "set_heap_strategy", "utilities"}

\* The case of sys_get_virtual_time stores the two halves of the result through a1 and a2.
StoredThrough(name) == IF name = "get_virtual_time" THEN <<"low", "hi">> ELSE <<>>

E_INVAL == <<"error">>
HandlerOf(name) == IF name \in DOMAIN Renamed THEN Renamed[name] ELSE "sys_" \o name

\* What a call brings about: the handler, its parameters and what is stored through arguments, by
\* name, and what eax holds afterwards.
syscall(call) ==
  IF call.num >= Num("NSYSCALLS") THEN [handler |-> "none", given |-> <<>>, stored |-> <<>>, eax |-> E_INVAL]
  ELSE LET name    == SyscallNames[call.num + 1]
           handler == HandlerOf(name)
           formals == Handlers[handler]
           parts   == StoredThrough(name)
       IN [handler |-> handler,
           given |-> [i \in 1 .. Len(formals) |-> <<formals[i], call.a[i]>>],
           stored |-> [i \in 1 .. Len(parts) |-> <<parts[i], call.a[i]>>],
           eax |-> IF name \in ReturnZero THEN <<"zero">> ELSE <<handler>>]
-----------------------------------------------------------------------------
(* Names under which the two sides know the same thing.                     *)
SameParameter(formal, actual) ==
  \/ formal = actual
  \/ <<formal, actual>> \in {<<"srcenvid", "srcenv">>, <<"dstenvid", "dstenv">>}

SameFunction(stub, handler) ==
  \/ stub = handler
  \/ <<stub, handler>> \in {<<"sys_clear_ffl", "sys_clearFFL">>,
                            <<"sys_get_uheap_strategy", "sys_get_heap_strategy">>}

\* A call through the stub named f reaches the kernel function of that name, every parameter of it
\* receives what the caller passed under its name, what is stored through an argument is the part
\* of the result it was passed for, and a stub that returns the result of the call gets the
\* handler's own result (__sys_map_frame, whose handler only panics, apart).
StubsReachHandlers(f) ==
  LET stub == AllStubs[f]
      done == syscall(TrapOut(TrapIn(stub)))
  IN /\ SameFunction(f, done.handler)
     /\ Len(done.given \o done.stored) = Len(stub.args)
     /\ \A i \in DOMAIN done.given : SameParameter(done.given[i][1], done.given[i][2])
     /\ \A i \in DOMAIN done.stored : done.stored[i][1] = done.stored[i][2]
     /\ stub.returns /\ f # "__sys_map_frame" => done.eax = <<done.handler>>
     /\ ~stub.returns => done.eax = <<"zero">>
     /\ \A g \in DOMAIN AllStubs \ {f} : AllStubs[g].num # stub.num
=============================================================================
