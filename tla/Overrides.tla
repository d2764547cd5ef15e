----------------------------- MODULE Overrides -----------------------------
(***************************************************************************)
(* Operator overrides in the API gateway (gateway/overrides.go, stores.go, *)
(* audit.go, handler.go).  Every HTTP request runs on a goroutine of its   *)
(* own and goes through up to three stores, each with a lock of its own:   *)
(* the action store, the paused modules and the audit trail.  A request is *)
(* therefore a sequence of steps between which other requests run.         *)
(***************************************************************************)
EXTENDS Integers, Sequences, FiniteSets

CONSTANTS
  Actions,     \* ids of autonomous actions
  Modules,
  ModuleOf,    \* the module of each action
  Operators,
  Requests     \* override requests that may be sent, each once

ASSUME OverridesAssumption ==
  /\ ModuleOf \in [Actions -> Modules]
  /\ Actions \cap Modules = {}
  /\ IsFiniteSet(Requests)

Nobody == "nobody"

VARIABLES
  outcome,     \* ActionStore: outcome per action, "absent" before Add
  overrideBy,  \* ActionStore: operator of the last override
  pausedBy,    \* OverrideStore.pausedModules
  audit,       \* AuditStore.entries: <<[op, target, module, operator, outcome]>>;
               \* target is history, the code keeps the module only
  request      \* per request: [pc, op, target, operator]

stores == <<outcome, overrideBy, pausedBy>>
vars   == <<outcome, overrideBy, pausedBy, audit, request>>

Outcomes == {"absent", "pending", "success", "failed", "rejected"}
Ops      == {"approve", "reject", "pause", "resume"}

(* the module an entry of the audit trail is filed under *)
ModuleFor(target) == IF target \in Actions THEN ModuleOf[target] ELSE target

(* the outcome an operation is audited with *)
Audited == [approve |-> "approved", reject |-> "rejected",
            pause   |-> "paused",   resume |-> "resumed"]

Unsent == [pc |-> "unsent", op |-> "approve", target |-> Nobody, operator |-> Nobody]

Init ==
  /\ outcome = [a \in Actions |-> "absent"]
  /\ overrideBy = [a \in Actions |-> Nobody]
  /\ pausedBy = [m \in Modules |-> Nobody]
  /\ audit = <<>>
  /\ request = [r \in Requests |-> Unsent]

(* Actions().Add: a module reports an action; nothing consults the pauses *)
AddAction(a, result) ==
  /\ outcome[a] = "absent"
  /\ outcome' = [outcome EXCEPT ![a] = result]
  /\ UNCHANGED <<overrideBy, pausedBy, audit, request>>

(* handleOverrides: the decoded operation of a request *)
Send(r, op, target, operator) ==
  /\ request[r].pc = "unsent"
  /\ op \in {"approve", "reject"} <=> target \in Actions
  /\ request' = [request EXCEPT ![r] =
       [pc |-> IF target \in Actions THEN "find" ELSE "apply",
        op |-> op, target |-> target, operator |-> operator]]
  /\ UNCHANGED <<stores, audit>>

(* ApproveAction and RejectAction: actions.Get *)
Find(r) ==
  /\ request[r].pc = "find"
  /\ request' = [request EXCEPT ![r].pc =
       IF outcome[request[r].target] = "absent" THEN "notfound" ELSE "apply"]
  /\ UNCHANGED <<stores, audit>>

(* actions.UpdateOutcome, or the change of pausedModules *)
Decided(op) == IF op = "approve" THEN "success" ELSE "rejected"

Overrule(r) ==
  LET a == request[r].target
  IN  /\ request[r].op \in {"approve", "reject"}
      /\ outcome' = [outcome EXCEPT ![a] = IF @ = "absent" THEN @ ELSE Decided(request[r].op)]
      /\ overrideBy' = [overrideBy EXCEPT ![a] =
           IF outcome[a] = "absent" THEN @ ELSE request[r].operator]
      /\ UNCHANGED pausedBy

PauseOrResume(r) ==
  /\ request[r].op \in {"pause", "resume"}
  /\ pausedBy' = [pausedBy EXCEPT ![request[r].target] =
       IF request[r].op = "pause" THEN request[r].operator ELSE Nobody]
  /\ UNCHANGED <<outcome, overrideBy>>

Apply(r) ==
  /\ request[r].pc = "apply"
  /\ Overrule(r) \/ PauseOrResume(r)
  /\ request' = [request EXCEPT ![r].pc = "audit"]
  /\ UNCHANGED audit

(* audit.RecordOverride, then the answer *)
Entry(r) ==
  [op       |-> request[r].op,
   target   |-> request[r].target,
   module   |-> ModuleFor(request[r].target),
   operator |-> request[r].operator,
   outcome  |-> Audited[request[r].op]]

MutRecord(r) ==                               \* appended to a stale copy
  /\ request[r].pc = "audit"
  /\ \E n \in 0..Len(audit) : audit' = Append(SubSeq(audit, 1, n), Entry(r))
  /\ request' = [request EXCEPT ![r].pc = "answered"]
  /\ UNCHANGED stores
Record(r) ==
  /\ request[r].pc = "audit"
  /\ audit' = Append(audit, Entry(r))
  /\ request' = [request EXCEPT ![r].pc = "answered"]
  /\ UNCHANGED stores

Handle(r) == Find(r) \/ Apply(r) \/ Record(r)

Next ==
  \/ \E a \in Actions, result \in {"pending", "success", "failed"} : AddAction(a, result)
  \/ \E r \in Requests :
       \/ Handle(r)
       \/ \E op \in Ops, target \in Actions \cup Modules, operator \in Operators :
            Send(r, op, target, operator)

Spec == Init /\ [][Next]_vars

-----------------------------------------------------------------------------
RequestStates == {"unsent", "find", "apply", "audit", "answered", "notfound"}
Records == [pc : RequestStates, op : Ops, target : Actions \cup Modules \cup {Nobody},
            operator : Operators \cup {Nobody}]
Entries == [op : Ops, target : Actions \cup Modules, module : Modules,
            operator : Operators, outcome : {"approved", "rejected", "paused", "resumed"}]

(* Every variable has its type; entries name a module of the platform. *)
TypeOK ==
  /\ outcome \in [Actions -> Outcomes]
  /\ overrideBy \in [Actions -> Operators \cup {Nobody}]
  /\ pausedBy \in [Modules -> Operators \cup {Nobody}]
  /\ audit \in Seq(Entries)
  /\ request \in [Requests -> Records]
  /\ \A r \in Requests : request[r].pc # "unsent" =>
       request[r].target \in Actions \cup Modules /\ request[r].operator \in Operators

Pending(op, target, operator) ==
  \E r \in Requests : request[r] = [pc |-> "audit", op |-> op, target |-> target,
                                    operator |-> operator]
OnRecord(op, target, operator) ==
  \/ Pending(op, target, operator)
  \/ \E n \in 1..Len(audit) :
       audit[n].op = op /\ audit[n].target = target /\ audit[n].operator = operator

(* an overruled action has an entry of that operator with its outcome, a   *)
(* paused module one of who paused it, or the request is about to write it *)
StoresOnRecord ==
  /\ \A a \in Actions : overrideBy[a] # Nobody =>
       \E op \in {"approve", "reject"} :
         Decided(op) = outcome[a] /\ OnRecord(op, a, overrideBy[a])
  /\ \A m \in Modules : pausedBy[m] # Nobody => OnRecord("pause", m, pausedBy[m])

CarriedOut(op, target, operator) ==
  {r \in Requests : request[r] = [pc |-> "answered", op |-> op, target |-> target,
                                  operator |-> operator]}

(* one entry for every override that was carried out, none for an action   *)
(* that does not exist                                                     *)
OneEntryPerOverride ==
  /\ \A op \in Ops, target \in Actions \cup Modules, operator \in Operators :
       Cardinality({n \in 1..Len(audit) :
                      audit[n].op = op /\ audit[n].target = target /\ audit[n].operator = operator})
         = Cardinality(CarriedOut(op, target, operator))
  /\ \A n \in 1..Len(audit) :
       audit[n].target \in Actions => outcome[audit[n].target] # "absent"

(* What the stores say was done by an operator is in the audit trail, or   *)
(* the request that did it is just about to write it there; and the trail  *)
(* has exactly one entry for every override that was carried out, whatever *)
(* else was asked of the same action or module in between. (overrides.go,  *)
(* audit.go)                                                               *)
OverridesOnRecord == StoresOnRecord /\ OneEntryPerOverride
=============================================================================
