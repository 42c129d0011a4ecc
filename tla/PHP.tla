--------------------------------- MODULE PHP ---------------------------------
(***************************************************************************)
(* interpreter/php and interpreter/php/phpjit: the plugin for PHP, and the *)
(* one for the JIT compiler in opcache.so, which a PHP process may load.   *)
(*                                                                         *)
(* Memory: a zend_function has a type and the addresses of its name and of *)
(* its file; dasm_buf and dasm_size are the first page and the number of   *)
(* pages of the JIT buffer.                                                *)
(***************************************************************************)
EXTENDS Interpreter

\* determinePHPVersion
DeterminePHPVersion(elf) == IF "X-Powered-By" \in elf.missing THEN None ELSE elf.version

\* Loader: PHP 7.3 to 8.2 are supported.
PHPLoads(elf) == /\ {"elf", "executor_globals", "execute_ex"} \cap elf.missing = {}
                 /\ DeterminePHPVersion(elf) \in 73..82

\* determineVMKind and recoverExecuteExJumpLabelAddress: the address that JIT code
\* returns to, in a VM that is hybrid.
DetermineVMKind(elf) == IF "zend_vm_kind" \in elf.missing THEN None ELSE "hybrid"
RecoverExecuteExJumpLabelAddress(elf) == "return" \notin elf.missing
PHPData(elf) == [rtAddr |-> elf.version >= 80 /\ DetermineVMKind(elf) = "hybrid"
                              /\ RecoverExecuteExJumpLabelAddress(elf),
                 version |-> elf.version]

\* Loader of opcache.so, with determineOPCacheVersion and getOpcacheJITInfo.
DetermineOPCacheVersion(elf) == IF "zend_extension_entry" \in elf.missing THEN None ELSE elf.version
GetOpcacheJITInfo(elf) == "zend_jit_unprotect" \notin elf.missing
OpcacheLoads(elf) == /\ "elf" \notin elf.missing
                     /\ DetermineOPCacheVersion(elf) # None
                     /\ elf.version >= 80
                     /\ GetOpcacheJITInfo(elf)

\* Attach: process data, and the instance; it counts a return address not found.
PHPAttach(data) == [succ |-> 0, fail |-> 0, addrToFunction |-> << >>,
                    functions |-> << >>,    \* the phpFunction objects
                    vmRTCount |-> IF ~data.rtAddr /\ data.version >= 80 THEN 1 ELSE 0]

\* Detach
PHPDetach(bpf) == [bpf EXCEPT !.proc = @ \ {"php"}]

\* GetAndResetMetrics
PHPMetrics(inst) == [ResetMetrics(inst) EXCEPT !.vmRTCount = 0]

\* Attach of opcache.so does not touch the eBPF maps.
OpcacheAttach == [attached |-> FALSE, prefixes |-> {}]

\* A plausible bug: the prefixes are only remembered when all are inserted.
OpcacheSyncLate(jit, bpf, mem, n) ==
  LET buf == mem["dasm_buf"]
      area == buf..(buf + buf - 1)
      ins == InsertPrefixes({}, area, n - 1)
  IN  IF jit.attached \/ buf \in {None, 0} \/ mem["dasm_size"] = None THEN [jit |-> jit, bpf |-> bpf]
      ELSE IF n = 0 THEN [jit |-> jit, bpf |-> bpf]
      ELSE [jit |-> [attached |-> ins.ok, prefixes |-> IF ins.ok THEN area ELSE {}],
            bpf |-> [proc |-> bpf.proc \cup {"phpjit"}, pages |-> bpf.pages \cup ins.prefixes]]

\* SynchronizeMappings of opcache.so, once the buffer is there: process data,
\* and then the prefixes, which count as inserted whether or not each one is.
\* The size of the area is decoded from the bytes of the address.
OpcacheSync(jit, bpf, mem, n) ==
  LET buf == mem["dasm_buf"]
      area == buf..(buf + buf - 1)
      ins == InsertPrefixes({}, area, n - 1)
  IN  IF jit.attached \/ buf \in {None, 0} \/ mem["dasm_size"] = None THEN [jit |-> jit, bpf |-> bpf]
      ELSE IF n = 0 THEN [jit |-> jit, bpf |-> bpf]
      ELSE [jit |-> [attached |-> TRUE, prefixes |-> area],
            bpf |-> [proc |-> bpf.proc \cup {"phpjit"}, pages |-> bpf.pages \cup ins.prefixes]]

\* Detach of opcache.so: the prefixes only.
OpcacheDetach(jit, bpf) == [bpf EXCEPT !.pages = @ \ jit.prefixes]

\* getFunction: a name that cannot be read is unknown, or that of the top level.
GetFunction(r, mem, a, top) ==
  LET cached == Through(r.inst.addrToFunction, a, None)
      read == mem[mem[a].name]
      name == IF mem[a].type = "eval" THEN "<eval>"
              ELSE IF read # None THEN read.val
              ELSE IF top THEN "<top-level>" ELSE "<unknown>"
      n == Len(r.inst.functions) + 1
  IN  IF cached.ok THEN [r |-> [r EXCEPT !.inst.addrToFunction = cached.cache], p |-> cached.val]
      ELSE IF mem[a] = None THEN [r |-> Fail(r), p |-> 0]
      ELSE [p |-> n,
            r |-> [r EXCEPT !.inst.functions = Append(@, [id |-> <<name, mem[a].tok>>, seen |-> {}]),
                            !.inst.addrToFunction = LRU!Add(@, CacheSize, a, n)]]

\* Symbolize, for the frames of both plugins: for a line that was seen before it
\* returns without ReportSuccess.
PHPSymbolize(r, mem, f) ==
  LET got == GetFunction(r, mem, f.ptr, f.check = 1)
      fn == got.r.inst.functions[got.p]
      done == [Emit(got.r, <<fn.id, f.pos>>, f.pos \in fn.seen)
                 EXCEPT !.inst.functions[got.p].seen = @ \cup {f.pos}]
  IN  IF ~got.r.ok THEN [r |-> Count(got.r), err |-> TRUE]
      ELSE IF f.pos \in fn.seen THEN [r |-> Count(Fail(done)), err |-> FALSE]
      ELSE [r |-> Count(done), err |-> FALSE]
=============================================================================
