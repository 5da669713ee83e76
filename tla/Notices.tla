------------------------------- MODULE Notices -------------------------------
(***************************************************************************)
(* Completion notices (subfleet/notify.py): how the Claude session that    *)
(* dispatched a run learns of its end.  The runner's finish record is      *)
(* followed by a notifier in the same process, which leaves the report to  *)
(* a front door that still waits inline, pushes it into the session's      *)
(* inbox, or parks it in the session's notice file; the session's hooks    *)
(* show what is parked.  One session is modelled: nothing is shared        *)
(* between the files and inboxes of two.                                   *)
(*                                                                         *)
(* `fate' is history: what became of the report of each run.               *)
(***************************************************************************)
EXTENDS Naturals, FiniteSets

CONSTANTS
    Runs,         \* runs that the session dispatched
    Attached,     \* those that a front door waits for inline
    Hooks,        \* hook processes that may run at one time
    MaxKills      \* bound: deaths of the session, of hooks and of notifiers

ASSUME NoticesAssumption == MaxKills \in Nat /\ Attached \subseteq Runs

VARIABLES
    session,      \* whether a process of the session is up
    inbox,        \* runs whose notice its inbox has accepted and it has not read
    rows,         \* the row of each run in the session's notice file
    notifier,     \* how far each run's notifier is
    sent,         \* whether its push was accepted
    waiter,       \* the front door that waits inline for the run
    noted,        \* what the ledger entry says of the notice
    hook,         \* what each hook process is doing
    fate,         \* history: what became of the report of each run
    kills         \* bound: deaths so far

vars == <<session, inbox, rows, notifier, sent, waiter, noted, hook, fate, kills>>

NotifierStates == {"none", "loading", "checking", "appending", "noting", "done"}
WaiterStates == {"none", "waiting", "reported", "dead"}
Rows == {"none", "parked", "surfaced"}
Told == {"read", "shown", "inline"}
Lost == {"unread",       \* accepted by the inbox of a process that died
         "dropped",      \* marked surfaced by a hook that nobody heard
         "unreported",   \* left to a front door that died
         "unwritten",    \* the notice file could not be written
         "killed",       \* its notifier died
         "vanished"}     \* the ledger entry was pruned before the notifier read it
HookRecords == [at: {"idle", "session-start", "user-prompt", "marking", "printing"},
                list: SUBSET Runs, heard: BOOLEAN]
Resting == [at |-> "idle", list |-> {}, heard |-> FALSE]

Init ==
    /\ session \in {"up", "down"}
    /\ inbox = {}
    /\ rows = [r \in Runs |-> "none"]
    /\ notifier = [r \in Runs |-> "none"]
    /\ sent = [r \in Runs |-> FALSE]
    /\ waiter = [r \in Runs |-> IF r \in Attached THEN "waiting" ELSE "none"]
    /\ noted = [r \in Runs |-> "none"]
    /\ hook = [h \in Hooks |-> Resting]
    /\ fate = [r \in Runs |-> {}]
    /\ kills = 0

Ends(S, f) == fate' = [r \in Runs |-> IF r \in S THEN fate[r] \cup {f} ELSE fate[r]]

-----------------------------------------------------------------------------
(* The notifier of a run: cli._notify_finished and notify.on_finish *)

RecordFinish(r) ==
    /\ notifier[r] = "none"
    /\ notifier' = [notifier EXCEPT ![r] = "loading"]
    /\ UNCHANGED <<session, inbox, rows, sent, waiter, noted, hook, fate, kills>>

Load(r) ==
    /\ notifier[r] = "loading"
    /\ \/ notifier' = [notifier EXCEPT ![r] = "checking"] /\ UNCHANGED fate
       \/ notifier' = [notifier EXCEPT ![r] = "done"] /\ Ends({r}, "vanished")
    /\ UNCHANGED <<session, inbox, rows, sent, waiter, noted, hook, kills>>

(* The waiting front door is alive and will report the run itself. *)
LeaveToWaiter(r) ==
    /\ notifier[r] = "checking"
    /\ waiter[r] = "waiting"
    /\ notifier' = [notifier EXCEPT ![r] = "noting"]
    /\ UNCHANGED <<session, inbox, rows, sent, waiter, noted, hook, fate, kills>>

(* push_to_session: only a running process with an inbox takes the bytes;   *)
(* one that is up may still not get them (no token, a stale registry row).  *)
Push(r) ==
    /\ notifier[r] = "checking"
    /\ waiter[r] # "waiting"
    /\ \/ session = "up" /\ sent' = [sent EXCEPT ![r] = TRUE] /\ inbox' = inbox \cup {r}
       \/ UNCHANGED <<sent, inbox>>
    /\ notifier' = [notifier EXCEPT ![r] = "appending"]
    /\ UNCHANGED <<session, rows, waiter, noted, hook, fate, kills>>

AlwaysParked(r) == "parked"                                  \* mutant
AlwaysSurfaced(r) == "surfaced"                              \* mutant
RowOf(r) == IF sent[r] THEN "surfaced" ELSE "parked"

(* append_notice, whose errors are ignored. *)
Append(r) ==
    /\ notifier[r] = "appending"
    /\ \/ rows' = [rows EXCEPT ![r] = RowOf(r)] /\ UNCHANGED fate
       \/ UNCHANGED rows /\ IF sent[r] THEN UNCHANGED fate ELSE Ends({r}, "unwritten")
    /\ notifier' = [notifier EXCEPT ![r] = "noting"]
    /\ UNCHANGED <<session, inbox, sent, waiter, noted, hook, kills>>

(* set_notify, which fails when the entry has been pruned. *)
SetNotify(r) ==
    /\ notifier[r] = "noting"
    /\ \/ noted' = [noted EXCEPT ![r] = IF sent[r] THEN "pushed" ELSE "unpushed"]
       \/ UNCHANGED noted
    /\ notifier' = [notifier EXCEPT ![r] = "done"]
    /\ UNCHANGED <<session, inbox, rows, sent, waiter, hook, fate, kills>>

Kill == kills < MaxKills /\ kills' = kills + 1

NotifierDies(r) ==
    /\ notifier[r] \in {"loading", "checking", "appending", "noting"}
    /\ Kill
    /\ notifier' = [notifier EXCEPT ![r] = "done"]
    /\ IF notifier[r] = "noting" \/ sent[r] THEN UNCHANGED fate ELSE Ends({r}, "killed")
    /\ UNCHANGED <<session, inbox, rows, sent, waiter, noted, hook>>

-----------------------------------------------------------------------------
(* The front door of an attached run: delegate.wait_for. *)

Finished(r) == notifier[r] # "none"

WaiterReports(r) ==
    /\ waiter[r] = "waiting" /\ Finished(r)
    /\ waiter' = [waiter EXCEPT ![r] = "reported"]
    /\ Ends({r}, "inline")
    /\ UNCHANGED <<session, inbox, rows, notifier, sent, noted, hook, kills>>

(* The report was left to a front door that is about to die. *)
LeftTo(r) == waiter[r] = "waiting" /\ notifier[r] \in {"noting", "done"}

WaiterDies(r) ==
    /\ waiter[r] = "waiting"
    /\ waiter' = [waiter EXCEPT ![r] = "dead"]
    /\ Ends({q \in {r} : LeftTo(q)}, "unreported")
    /\ UNCHANGED <<session, inbox, rows, notifier, sent, noted, hook, kills>>

-----------------------------------------------------------------------------
(* The session and its hooks: bin/subfleet-hook and cli.cmd_session_hook *)

ReadInbox ==
    /\ session = "up" /\ inbox # {}
    /\ Ends(inbox, "read")
    /\ inbox' = {}
    /\ UNCHANGED <<session, rows, notifier, sent, waiter, noted, hook, kills>>

(* Nobody hears the hooks of a process that is gone; its front doors die    *)
(* with it.                                                                 *)
SessionDies ==
    /\ session = "up"
    /\ Kill
    /\ session' = "down"
    /\ inbox' = {}
    /\ hook' = [h \in Hooks |-> [hook[h] EXCEPT !.heard = FALSE]]
    /\ waiter' = [r \in Runs |-> IF waiter[r] = "waiting" THEN "dead" ELSE waiter[r]]
    /\ fate' = [r \in Runs |-> fate[r] \cup (IF r \in inbox THEN {"unread"} ELSE {})
                                       \cup (IF LeftTo(r) THEN {"unreported"} ELSE {})]
    /\ UNCHANGED <<rows, notifier, sent, noted>>

Starting(event) == [at |-> event, list |-> {}, heard |-> TRUE]

SessionStarts(h) ==
    /\ session = "down" /\ hook[h].at = "idle"
    /\ session' = "up"
    /\ hook' = [hook EXCEPT ![h] = Starting("session-start")]
    /\ UNCHANGED <<inbox, rows, notifier, sent, waiter, noted, fate, kills>>

(* The hook goes on only when there is a notice file with something in it. *)
UserPrompt(h) ==
    /\ session = "up" /\ hook[h].at = "idle"
    /\ \E r \in Runs : rows[r] # "none"
    /\ hook' = [hook EXCEPT ![h] = Starting("user-prompt")]
    /\ UNCHANGED <<session, inbox, rows, notifier, sent, waiter, noted, fate, kills>>

(* pending_notices.  A hook at the start of a session asks for pushed ones  *)
(* too.                                                                     *)
Pending(pushedToo) == {r \in Runs : rows[r] = "parked" /\ (pushedToo \/ ~sent[r])}

HookReads(h) ==
    /\ hook[h].at \in {"session-start", "user-prompt"}
    /\ LET list == Pending(hook[h].at = "session-start")
       IN  hook' = [hook EXCEPT ![h] = IF list = {} THEN Resting
                                       ELSE [@ EXCEPT !.at = "marking", !.list = list]]
    /\ UNCHANGED <<session, inbox, rows, notifier, sent, waiter, noted, fate, kills>>

(* mark_surfaced: the rows that the hook has read, and no row that was      *)
(* appended since.                                                          *)
Whole(h) == Runs                                             \* mutant
Marked(h) == hook[h].list

HookMarks(h) ==
    /\ hook[h].at = "marking"
    /\ rows' = [r \in Runs |-> IF r \in Marked(h) /\ rows[r] = "parked"
                               THEN "surfaced" ELSE rows[r]]
    /\ hook' = [hook EXCEPT ![h].at = "printing"]
    /\ UNCHANGED <<session, inbox, notifier, sent, waiter, noted, fate, kills>>

HookPrints(h) ==
    /\ hook[h].at = "printing"
    /\ Ends(hook[h].list, IF hook[h].heard THEN "shown" ELSE "dropped")
    /\ hook' = [hook EXCEPT ![h] = Resting]
    /\ UNCHANGED <<session, inbox, rows, notifier, sent, waiter, noted, kills>>

HookDies(h) ==
    /\ hook[h].at # "idle"
    /\ Kill
    /\ IF hook[h].at = "printing" THEN Ends(hook[h].list, "dropped") ELSE UNCHANGED fate
    /\ hook' = [hook EXCEPT ![h] = Resting]
    /\ UNCHANGED <<session, inbox, rows, notifier, sent, waiter, noted>>

(* prune_notices, which drops old rows that were surfaced; only tests call  *)
(* it so far.                                                               *)
AnyRow(r) == rows[r] # "none"                                \* mutant
Droppable(r) == rows[r] = "surfaced"
PruneNotices ==
    \E S \in SUBSET Runs :
        /\ S # {} /\ \A r \in S : Droppable(r)
        /\ rows' = [r \in Runs |-> IF r \in S THEN "none" ELSE rows[r]]
        /\ UNCHANGED <<session, inbox, notifier, sent, waiter, noted, hook, fate, kills>>

-----------------------------------------------------------------------------
NotifierStep(r) == \/ Load(r) \/ LeaveToWaiter(r) \/ Push(r) \/ Append(r) \/ SetNotify(r)
HookStep(h) == HookReads(h) \/ HookMarks(h) \/ HookPrints(h)

Next == \/ \E r \in Runs : \/ RecordFinish(r) \/ NotifierStep(r) \/ NotifierDies(r)
                           \/ WaiterReports(r) \/ WaiterDies(r)
        \/ \E h \in Hooks : \/ SessionStarts(h) \/ UserPrompt(h)
                            \/ HookStep(h) \/ HookDies(h)
        \/ ReadInbox \/ SessionDies \/ PruneNotices

Spec == Init /\ [][Next]_vars

(* Processes go on unless they are killed, and the session comes back and   *)
(* is used: its hooks run at every start and at some later prompt.          *)
FairSpec == /\ Spec
            /\ \A r \in Runs : WF_vars(NotifierStep(r)) /\ WF_vars(WaiterReports(r))
            /\ \A h \in Hooks : WF_vars(HookStep(h))
            /\ WF_vars(\E h \in Hooks : SessionStarts(h))
            /\ WF_vars(\E h \in Hooks : UserPrompt(h))
            /\ WF_vars(ReadInbox)

-----------------------------------------------------------------------------
(* Properties *)

TypeOK ==
    /\ session \in {"up", "down"}
    /\ inbox \in SUBSET Runs
    /\ rows \in [Runs -> Rows]
    /\ notifier \in [Runs -> NotifierStates]
    /\ sent \in [Runs -> BOOLEAN]
    /\ waiter \in [Runs -> WaiterStates]
    /\ noted \in [Runs -> {"none", "pushed", "unpushed"}]
    /\ hook \in [Hooks -> HookRecords]
    /\ fate \in [Runs -> SUBSET (Told \cup Lost)]
    /\ kills \in 0..MaxKills

(* Until the report of a recorded end has had a fate, somebody still has    *)
(* it: the notifier at work on it, the front door that waits, the inbox,    *)
(* the notice file, or a hook about to print it.  No step of theirs lets it *)
(* go before another has it: a row appended behind a hook's list, a front   *)
(* door that ends while the notifier looks, a prune, a restart.  Losses are *)
(* fates too, those of Lost: an inbox that dies unread takes its notices    *)
(* along.                                                                   *)
Held(r) ==
    \/ notifier[r] \in {"loading", "checking", "appending"}
    \/ waiter[r] = "waiting"
    \/ r \in inbox
    \/ rows[r] = "parked"
    \/ \E h \in Hooks : hook[h].at = "printing" /\ r \in hook[h].list
NoneForgotten == \A r \in Runs : Finished(r) /\ fate[r] = {} => Held(r)

(* A parked notice stays in the file until a hook that has read it marks it *)
(* surfaced; no append, push, prune or restart takes it away before.        *)
NoticeKept ==
    [][\A r \in Runs : (rows[r] = "parked" /\ rows'[r] # "parked") =>
          \E h \in Hooks : /\ hook[h].at = "marking" /\ r \in hook[h].list
                           /\ hook'[h].at = "printing"]_vars

(* Every run whose end was recorded is told to its session, or was lost in  *)
(* one of the ways that Lost lists: none is parked for ever or forgotten.   *)
EveryRunTold == \A r \in Runs : Finished(r) ~> fate[r] # {}

=============================================================================
