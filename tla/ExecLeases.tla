----------------------------- MODULE ExecLeases -----------------------------
(***************************************************************************)
(* What the executable info manager promises its callers: an executable is *)
(* known exactly while somebody leases it.  A holder is one memory mapping *)
(* (or one synthetic record) and leases at most one executable.            *)
(***************************************************************************)
CONSTANTS Holder, FileID, NoFile

VARIABLES lease,   \* lease[h]: the executable h leases, or NoFile
          known    \* the executables whose information is available

leaseVars == <<lease, known>>

LInit == /\ lease = [h \in Holder |-> NoFile]
         /\ known = {}

LAcquire(h, f) == /\ lease[h] = NoFile
                  /\ lease' = [lease EXCEPT ![h] = f]
                  /\ known' = known \cup {f}

LRelease(h) == /\ lease[h] # NoFile
               /\ lease' = [lease EXCEPT ![h] = NoFile]
               /\ known' = {f \in known : \E g \in Holder : lease'[g] = f}

LNext == \E h \in Holder : LRelease(h) \/ \E f \in FileID : LAcquire(h, f)

LSpec == LInit /\ [][LNext]_leaseVars
=============================================================================
