------------------------------ MODULE SessionRow ------------------------------
(***************************************************************************)
(* One row of the sessions table and everybody who writes to it: the       *)
(* status reports of the session process and of the daemon's death watch,  *)
(* the web's archive, restore and delete, the reconciliation of orphaned   *)
(* sessions that a read performs, and the compare-and-set writes of the    *)
(* encrypted metadata by the session process and by the web.               *)
(*                                                                         *)
(* A handler's transaction runs at READ COMMITTED: its SELECT and its      *)
(* UPDATE are separate steps, and the UPDATE re-evaluates its WHERE on     *)
(* the newest row.  The UPDATE and the statements after it, up to the      *)
(* commit, are one step: the UPDATE keeps the row locked until then.       *)
(*                                                                         *)
(* The reports are sent by processes that race their own end, so any of    *)
(* them may arrive at any time.  The two signals that make a session look  *)
(* orphaned are time stamps; here an active row may look orphaned whenever *)
(* it is read.                                                             *)
(*                                                                         *)
(* Bounds: MaxRequests status requests arrive, and each writer makes one   *)
(* write of the metadata (a tab is any of the web's mutation hooks: each   *)
(* patches for itself).                                                    *)
(***************************************************************************)
EXTENDS Naturals, TLC

CONSTANTS
    StatusRequests, \* concurrent handlers of status requests
    Cli, Tabs,     \* the writers of the metadata
    MaxAttempts,   \* MAX_ATTEMPTS of the web's compare-and-set loop
    MaxRequests

Writers == Tabs \cup {Cli}

ASSUME RowAssumption ==
    /\ Cli \notin Tabs
    /\ MaxAttempts \in Nat \ {0} /\ MaxRequests \in Nat

VARIABLES
    status,     \* the row's status, "deleted" when there is no row
    value,      \* the row's metadata
    version,    \* and its metadataVersion
    arrived,    \* the number of status requests so far
    req,        \* what each status handler does: kind and step
    write       \* what each metadata writer does and knows

row == <<status, value, version>>
rowVars == <<row, arrived, req, write>>

Statuses == {"active", "failed", "ended", "archived", "deleted"}
Kinds == {"failed", "ended", "archive", "restore", "delete"}
Metadata == [title : {"none", "auto", "manual"}, model : BOOLEAN, pinned : BOOLEAN]
Free == [kind |-> "none", pc |-> "idle"]
NoMetadata == [title |-> "none", model |-> FALSE, pinned |-> FALSE]

(* updateTitle and updateModel of the session process, the web's rename    *)
(* and pin.                                                                *)
PatchesOf(w) == IF w = Cli THEN {"title", "model"} ELSE {"rename", "pin"}
Patches == {"title", "model", "rename", "pin"}

RowInit ==
    /\ status = "active"
    /\ value = NoMetadata /\ version = 0
    /\ arrived = 0
    /\ req = [r \in StatusRequests |-> Free]
    /\ \E patch \in [Writers -> Patches] :
         /\ \A w \in Writers : patch[w] \in PatchesOf(w)
         /\ write = [w \in Writers |-> [pc |-> "idle", patch |-> patch[w], tries |-> 0,
                                        known |-> NoMetadata, at |-> 0]]

------------------------------------------------------------------------------
(* Status requests                                                         *)

Target == [failed |-> "failed", ended |-> "ended", archive |-> "archived",
           restore |-> "active", delete |-> "deleted"]

Go(r, kind, pc) == req' = [req EXCEPT ![r] = [kind |-> kind, pc |-> pc]]

End(r) == req' = [req EXCEPT ![r] = Free]

(* A report or a request of the web arrives, whatever the row's status.    *)
Arrive(r, kind) ==
    /\ req[r].pc = "idle" /\ arrived < MaxRequests
    /\ arrived' = arrived + 1
    /\ Go(r, kind, IF kind = "delete" THEN "apply" ELSE "find")
    /\ UNCHANGED <<row, write>>

(* A read of the sessions found an active row that looks orphaned: from    *)
(* here the reconciliation does what a failed report does.                 *)
Sweep(r) == status = "active" /\ Arrive(r, "failed")

(* What the transaction's SELECT lets through: not a row that is in this   *)
(* status already, and not one whose status the request must leave alone.  *)
MayApply(kind) ==
    \/ kind = "failed" /\ status = "active"
    \/ kind = "ended" /\ status \notin {"deleted", "ended", "archived"}
    \/ kind = "archive" /\ status \notin {"deleted", "archived"}
    \/ kind = "restore" /\ status = "archived"

Find(r) ==
    /\ req[r].pc = "find"
    /\ IF MayApply(req[r].kind)
         THEN Go(r, req[r].kind, "apply")
         ELSE End(r)
    /\ UNCHANGED <<row, arrived, write>>

(* The WHERE of the UPDATE: reports name the status again, archive and     *)
(* restore name the row alone.                                             *)
Matches_Archived(kind) == status # "deleted" /\ (kind = "failed" => status = "active")
Matches(kind) ==
    /\ status # "deleted"
    /\ kind = "failed" => status = "active"
    /\ kind = "ended" => status # "archived"

(* The statement finds the row: it changes, and a fan-out is due.  Archive *)
(* and restore do not look at the row count: theirs is due in any case.    *)
Apply_NoCount(r) ==
    /\ req[r].pc = "apply"
    /\ status' = IF Matches(req[r].kind) THEN Target[req[r].kind] ELSE status
    /\ Go(r, req[r].kind, "finish")
    /\ UNCHANGED <<value, version, arrived, write>>
Apply(r) ==
    /\ req[r].pc = "apply"
    /\ status' = IF Matches(req[r].kind) THEN Target[req[r].kind] ELSE status
    /\ IF Matches(req[r].kind) \/ req[r].kind \in {"archive", "restore"}
         THEN Go(r, req[r].kind, "finish")
         ELSE End(r)
    /\ UNCHANGED <<value, version, arrived, write>>

(* The response is sent: the change is fanned out.                         *)
FanOut(r) ==
    /\ req[r].pc = "finish"
    /\ End(r)
    /\ UNCHANGED <<row, arrived, write>>

------------------------------------------------------------------------------
(* Metadata writes                                                         *)

(* What a patch makes of a value.                                          *)
Patched(patch, v) ==
    [title  |-> IF patch = "rename" THEN "manual"
                ELSE IF patch = "title" /\ v.title # "manual" THEN "auto" ELSE v.title,
     model  |-> v.model \/ patch = "model",
     pinned |-> v.pinned \/ patch = "pin"]

Patch(w, v) == Patched(write[w].patch, v)

(* updateModel and updateTitle start from the metadata the process knows;  *)
(* a tab's mutation starts from the row in the ['sync'] cache, which is    *)
(* the row as of some earlier moment (module HeaderStream), here the       *)
(* oldest or the newest.                                                   *)
BeginWrite(w) ==
    /\ write[w].pc = "idle"
    /\ \/ write' = [write EXCEPT ![w].pc = "compute"]
       \/ /\ w \in Tabs /\ status # "deleted"
          /\ write' = [write EXCEPT ![w].pc = "compute", ![w].known = value, ![w].at = version]
    /\ UNCHANGED <<row, arrived, req>>

(* What is known is of no use once the write is over.                      *)
EndWrite(w) ==
    write' = [write EXCEPT ![w] = [@ EXCEPT !.pc = "done", !.tries = 0,
                                            !.known = NoMetadata, !.at = 0]]

(* The session process skips a patch that changes nothing; the web sends   *)
(* it all the same.                                                        *)
Skip(w) ==
    /\ write[w].pc = "compute" /\ w = Cli
    /\ Patch(w, write[w].known) = write[w].known
    /\ EndWrite(w)
    /\ UNCHANGED <<row, arrived, req>>

(* "Could not save: too many conflicting writes."                          *)
GiveUp(w) ==
    /\ write[w].pc = "compute" /\ w \in Tabs /\ write[w].tries = MaxAttempts
    /\ EndWrite(w)
    /\ UNCHANGED <<row, arrived, req>>

(* One round of the loop: patch what is known, PUT it with its version.    *)
(* The session process has no limit of rounds.                             *)
Put(w) ==
    /\ write[w].pc = "compute"
    /\ IF w = Cli THEN Patch(w, write[w].known) # write[w].known
                  ELSE write[w].tries < MaxAttempts
    /\ write' = [write EXCEPT ![w].pc = "put", ![w].tries = IF w = Cli THEN @ ELSE @ + 1]
    /\ UNCHANGED <<row, arrived, req>>

(* casUpdateSessionField: the version is compared on the row that was      *)
(* read ...                                                                *)
CasFind(w) ==
    /\ write[w].pc = "put" /\ status # "deleted"
    /\ write' = [write EXCEPT ![w].pc = IF version = write[w].at THEN "update" ELSE "conflict"]
    /\ UNCHANGED <<row, arrived, req>>

(* ... and again by the UPDATE.                                            *)
CasUpdate_ById(w) ==
    /\ write[w].pc = "update" /\ status # "deleted"
    /\ value' = Patch(w, write[w].known)
    /\ version' = version + 1
    /\ write' = [write EXCEPT ![w].pc = "ok"]
    /\ UNCHANGED <<status, arrived, req>>
CasUpdate(w) ==
    /\ write[w].pc = "update" /\ status # "deleted"
    /\ IF version = write[w].at
         THEN /\ value' = Patch(w, write[w].known)
              /\ version' = version + 1
              /\ write' = [write EXCEPT ![w].pc = "ok"]
         ELSE /\ write' = [write EXCEPT ![w].pc = "conflict"]
              /\ UNCHANGED <<value, version>>
    /\ UNCHANGED <<status, arrived, req>>

(* 200: the write has succeeded.                                           *)
PutOk(w) ==
    /\ write[w].pc = "ok"
    /\ EndWrite(w)
    /\ UNCHANGED <<row, arrived, req>>

(* 409 carries the row's value and version; go round again with them.  The *)
(* handler reads the row afresh when it is the UPDATE that lost.           *)
PutConflict(w) ==
    /\ write[w].pc = "conflict" /\ status # "deleted"
    /\ write' = [write EXCEPT ![w].pc = "compute", ![w].known = value, ![w].at = version]
    /\ UNCHANGED <<row, arrived, req>>

(* The request or its answer is lost, the session is gone (404, or the row *)
(* vanished in the transaction), or the server fails: the write throws.    *)
PutFails(w) ==
    /\ write[w].pc \in {"put", "update", "conflict", "ok"}
    /\ EndWrite(w)
    /\ UNCHANGED <<row, arrived, req>>

------------------------------------------------------------------------------
HandleStatus(r) == Find(r) \/ Apply(r) \/ FanOut(r)
WriteStep(w) ==
    \/ Skip(w) \/ GiveUp(w) \/ Put(w) \/ CasFind(w) \/ CasUpdate(w)
    \/ PutOk(w) \/ PutConflict(w) \/ PutFails(w)

RowNext ==
    \/ \E r \in StatusRequests : HandleStatus(r) \/ Sweep(r) \/ \E kind \in Kinds : Arrive(r, kind)
    \/ \E w \in Writers : WriteStep(w) \/ BeginWrite(w)

RowSpec == RowInit /\ [][RowNext]_rowVars

(* A writer that knows the newest version knows its value: what makes the  *)
(* comparison of versions enough.                                          *)
KnownIsCurrent ==
    /\ version = 0 => value = NoMetadata
    /\ \A w \in Writers :
         /\ write[w].at <= version
         /\ write[w].at = version => write[w].known = value

Sym == Permutations(StatusRequests) \cup Permutations(Tabs)

------------------------------------------------------------------------------
(* What the variables range over.                                          *)
RowTypeOK ==
    /\ status \in Statuses
    /\ value \in Metadata /\ version \in Nat
    /\ arrived \in 0 .. MaxRequests
    /\ req \in [StatusRequests -> [kind : Kinds, pc : {"find", "apply", "finish"}] \cup {Free}]
    /\ write \in [Writers ->
         [pc : {"idle", "compute", "put", "update", "conflict", "ok", "done"},
          patch : Patches, tries : 0 .. MaxAttempts, known : Metadata, at : Nat]]

(* The inductive invariant.                                                *)
RowIInv == RowTypeOK /\ KnownIsCurrent

(* "a late/redundant daemon report can never downgrade an already-ended    *)
(* session", "archive is the stronger, user-initiated terminal state":     *)
(* whatever the handlers read before, only an active session fails, and an *)
(* archived one is left by restore or deletion alone.                      *)
TerminalKept ==
    [][/\ status' = "failed" => status \in {"active", "failed"}
       /\ status = "archived" /\ status' # status =>
            \E r \in StatusRequests : req[r].kind \in {"restore", "delete"} /\ req[r].pc = "apply"]_rowVars

(* A report or a reconciliation goes on to fan out, push and badge only    *)
(* when it is the one that changed the row ("would believe it won and fan  *)
(* out a false session-update/attention/push").  Two ended reports may     *)
(* both win: the second rewrites the status it finds.                      *)
FanOutIsTrue ==
    [][\A r \in StatusRequests :
         req'[r].pc = "finish" /\ req[r].pc # "finish" /\ req[r].kind \in {"failed", "ended"}
           => /\ status' = req[r].kind
              /\ status # status' \/ status = "ended"]_rowVars

(* No update of the metadata is lost, whoever read what when: each new     *)
(* version is the version before it with one writer's patch applied, so a  *)
(* manual title survives an automatic one and a pin survives both.         *)
PatchesCompose ==
    [][version' # version =>
         \E w \in Writers : write[w].pc = "update" /\ value' = Patch(w, value)]_rowVars
==============================================================================
