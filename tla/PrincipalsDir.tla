--------------------------- MODULE PrincipalsDir ---------------------------
(***************************************************************************)
(* The principals directory sshd consults, and renderPrincipalsDir         *)
(* (internal/agent/policy.go): one tmp->rename per user of the policy,     *)
(* then ReadDir, then one remove per file that is not wanted. The          *)
(* directory is rewritten file by file, so a crash, an error or another    *)
(* goroutine can come between any two of these operations. Usernames are   *)
(* taken in any order: the properties do not depend on it.                 *)
(*                                                                         *)
(* A rendering is [pc, snap, todo]: snap is the policy being rendered ({}  *)
(* when there is none), todo the users still to be written or removed.     *)
(***************************************************************************)
EXTENDS Policy

VARIABLE disk   \* disk[u]: the callers in file u, {} = no file

DiskTypeOK == disk \in Files

DiskInit == disk = NoFiles

RenderPC == {"idle", "validate", "write", "remove"}

Renderings ==
    [pc : RenderPC, snap : SUBSET Policies, todo : SUBSET Users]

NoRendering == [pc |-> "idle", snap |-> {}, todo |-> {}]

BeginRender(p) == [pc |-> "validate", snap |-> {p}, todo |-> {}]

\* What ReadDir lists.
Present == {u \in Users : disk[u] # {}}

Wanted(p) == {u \in Users : p.principals[u] # {}}

\* validatePolicyPayload passed: every username of the policy is to write.
Validated(r, p) == [r EXCEPT !.pc = "write", !.todo = Wanted(p)]

\* Mutant: the file is opened without O_TRUNC.
AppendFile(u, p) == disk' = [disk EXCEPT ![u] = @ \cup p.principals[u]]

\* atomicWritePrincipals of one user.
WriteFile(u, p) == disk' = [disk EXCEPT ![u] = p.principals[u]]

\* Mutant: files of users dropped from the policy are left behind.
ListedNone(r, p) == [r EXCEPT !.pc = "remove", !.todo = {}]

\* All files written: ReadDir decides what is stale.
Listed(r, p) == [r EXCEPT !.pc = "remove", !.todo = Present \ Wanted(p)]

RemoveFile(u) == disk' = [disk EXCEPT ![u] = {}]

Ticked(r, u) == [r EXCEPT !.todo = @ \ {u}]

=============================================================================
