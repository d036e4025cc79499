---------------------------- MODULE Services_proofs ----------------------------
(***************************************************************************)
(* Proofs about the components behind the handlers: the services with      *)
(* their quota (KeyServices), the credentials (ApiKeys), the rotation      *)
(* service (RotationScheduler), break glass access (BreakGlass) and the    *)
(* bounded cache (BoundedKeyCache), for any number of tenants, keys,       *)
(* callers, requests, administrative calls, policies, durations, days and  *)
(* threads and any capacity.                                               *)
(***************************************************************************)
EXTENDS KeyServices, ApiKeys, RotationScheduler, BreakGlass, BoundedKeyCache,
        FiniteSetTheorems, SequenceTheorems, WellFoundedInduction, TLAPS

-----------------------------------------------------------------------------
(* KeyServices: the inductive invariant.                                   *)

Envelope == [key : ServiceKeys \cup {"none"}, label : Nat, sealed : Nat,
             tenant : ServiceTenants \cup {"none"}, raced : BOOLEAN]
Steps == {"idle", "quota", "make", "count", "request", "day", "meta", "old", "use"}
Kinds == {"none", "create", "crypto", "rotate_key", "delete_key", "envelope_encrypt",
          "export_key", "rewrap_dek"}
ACall == [at : Steps, op : Kinds, key : ServiceKeys \cup {"none"},
          tenant : ServiceTenants \cup {"none"}, version : Nat, asked : Nat,
          raced : BOOLEAN, env : Envelope]
AKey == [tenant : ServiceTenants, version : 1..MaxVersion, alive : BOOLEAN]

\* The table of keys, the calls and what they answered.
StoreShape ==
    /\ vault \in [DOMAIN vault -> AKey] /\ DOMAIN vault \subseteq ServiceKeys
    /\ call \in [Workers -> ACall]
    /\ envelopes \subseteq Envelope

\* The counters.
CounterShape ==
    /\ {counted, made, uncounted} \subseteq [ServiceTenants -> Nat]
    /\ {windows, passed} \subseteq [ServiceTenants -> [minute : Nat, day : Nat]]
    /\ calls \in 0..MaxCalls

\* What a call knows of the key it works on: a version it read before is the
\* current one, unless a rotation came since and marked the call.
Looking == {"request", "day", "meta", "old", "use"}
Knows(w) ==
    /\ call[w].at # "idle" => call[w].tenant \in ServiceTenants
    /\ call[w].at \in Looking => call[w].key \in DOMAIN vault
    /\ call[w].at \in {"old", "use"} =>
         /\ call[w].version \in 1..MaxVersion
         /\ ~call[w].raced => call[w].version = vault[call[w].key].version
    /\ call[w].op # "export_key" => call[w].asked = 0
CallKnows == \A w \in Workers : Knows(w)

\* An envelope is the owner's, and is sealed under the version on its label
\* unless its call was overtaken by a rotation.
EnvelopeKnows ==
    \A e \in envelopes :
      /\ e.key \in DOMAIN vault /\ e.tenant = vault[e.key].tenant
      /\ {e.label, e.sealed} \subseteq 1..MaxVersion
      /\ ~e.raced => e.label = e.sealed

AnswerKnows == (\A a \in answers : a.owner = a.tenant) /\ AnswersAskedVersion

\* The calls of a tenant that have come to one of the steps of A.
Among(A, t) == {w \in Workers : call[w].at \in A /\ call[w].tenant = t}
KeysOf(t) == {k \in DOMAIN vault : vault[k].tenant = t}

\* Every key made is in the table, and is counted, about to be or lost.
KeysCounted ==
    \A t \in ServiceTenants :
      /\ made[t] = Cardinality(KeysOf(t))
      /\ made[t] = counted[t] + Cardinality(Among({"count"}, t)) + uncounted[t]

\* A request that has passed the minute's counter holds a place in it until it
\* has passed the day's, and every counted request is a call.
RequestsCounted ==
    \A t \in ServiceTenants :
      /\ passed[t].minute + Cardinality(Among({"day"}, t)) <= windows[t].minute
      /\ passed[t].minute + Cardinality(Among({"day"}, t)) <= MaxRequests
      /\ passed[t].day <= windows[t].day /\ passed[t].day <= MaxDaily
      /\ windows[t].minute + Cardinality(Among({"request"}, t)) <= calls
      /\ windows[t].day + Cardinality(Among({"request", "day"}, t)) <= calls

Faithful == StoreShape /\ CallKnows /\ EnvelopeKnows /\ AnswerKnows
Counts == CounterShape /\ KeysCounted /\ RequestsCounted
ServicesInv == Faithful /\ Counts

-----------------------------------------------------------------------------
(* One call moves, the others stay.                                        *)

\* A worker at rest holds no call.
LEMMA IdleIsACall == Idle \in ACall /\ Idle.at = "idle" /\ Idle.op = "none" /\ Idle.asked = 0
<1>1. NoEnvelope \in Envelope
  BY DEF NoEnvelope, Envelope
<1>2. PICK e \in Envelope : e = NoEnvelope
  BY <1>1
<1>3. PICK b \in BOOLEAN : b = FALSE
  OBVIOUS
<1>4. PICK i \in Steps : i = "idle"
  BY DEF Steps
<1>5. PICK o \in Kinds : o = "none"
  BY DEF Kinds
<1>6. PICK k \in ServiceKeys \cup {"none"} : k = "none"
  OBVIOUS
<1>7. PICK t \in ServiceTenants \cup {"none"} : t = "none"
  OBVIOUS
<1>8. Idle = [at |-> i, op |-> o, key |-> k, tenant |-> t, version |-> 0, asked |-> 0,
              raced |-> b, env |-> e]
  BY <1>2, <1>3, <1>4, <1>5, <1>6, <1>7, Zenon DEF Idle
<1>9. Idle \in ACall
  BY <1>8 DEF ACall
<1>. QED BY <1>4, <1>5, <1>8, <1>9

\* What changes of a call that goes on to another step.
LEMMA MoveIs ==
    ASSUME call \in [Workers -> ACall], NEW w \in Workers, NEW at \in Steps, Move(w, at)
    PROVE  /\ call' \in [Workers -> ACall]
           /\ \A v \in Workers \ {w} : call'[v] = call[v]
           /\ call'[w] = [call[w] EXCEPT !.at = at]
           /\ call'[w].at = at /\ call'[w].op = call[w].op /\ call'[w].key = call[w].key
           /\ call'[w].tenant = call[w].tenant /\ call'[w].version = call[w].version
           /\ call'[w].asked = call[w].asked /\ call'[w].raced = call[w].raced
<1>1. PICK c \in ACall : c = call[w]
  OBVIOUS
<1>2. PICK d : d = [c EXCEPT !.at = at]
  OBVIOUS
<1>3. /\ d \in ACall /\ d.at = at /\ d.op = c.op /\ d.key = c.key /\ d.tenant = c.tenant
      /\ d.version = c.version /\ d.asked = c.asked /\ d.raced = c.raced
  BY <1>1, <1>2 DEF ACall
<1>4. call' = [call EXCEPT ![w] = d]
  BY <1>1, <1>2 DEF Move
<1>. QED BY <1>1, <1>2, <1>3, <1>4

\* A call that is over.
LEMMA FinishIs ==
    ASSUME call \in [Workers -> ACall], NEW w \in Workers, Finish(w)
    PROVE  /\ call' \in [Workers -> ACall]
           /\ \A v \in Workers \ {w} : call'[v] = call[v]
           /\ call'[w] = Idle /\ call'[w].at = "idle" /\ call'[w].op = "none" /\ call'[w].asked = 0
  BY IdleIsACall DEF Finish

\* The keys of the table stay, with their tenants and, but for a rotation, their
\* versions.
Lasting == /\ DOMAIN vault \subseteq DOMAIN vault'
           /\ \A k \in DOMAIN vault : vault'[k].tenant = vault[k].tenant
Steady == Lasting /\ \A k \in DOMAIN vault : vault'[k].version = vault[k].version

\* A table that does not change is steady.
LEMMA SteadyWhenUnchanged == UNCHANGED vault => Steady
  BY DEF Steady, Lasting

\* What the calls know stays true when one moves and no version changes.
LEMMA OthersKnow ==
    ASSUME CallKnows, Steady, NEW w \in Workers, \A v \in Workers \ {w} : call'[v] = call[v],
           Knows(w)'
    PROVE  CallKnows'
  BY DEF CallKnows, Knows, Steady, Lasting, Looking

\* Likewise of the envelopes there are.
LEMMA EnvelopesKnow ==
    ASSUME EnvelopeKnows, Lasting, UNCHANGED envelopes
    PROVE  EnvelopeKnows'
  BY DEF EnvelopeKnows, Lasting

\* How many calls of a tenant there are at some steps, when one moves.
LEMMA Recount ==
    ASSUME NEW w \in Workers, NEW A, NEW t,
           \A v \in Workers \ {w} : call'[v].at = call[v].at /\ call'[v].tenant = call[v].tenant
    PROVE  /\ Cardinality(Among(A, t)) \in Nat /\ Cardinality(Among(A, t)') \in Nat
           /\ w \in Among(A, t) /\ w \notin Among(A, t)'
                => Cardinality(Among(A, t)) = Cardinality(Among(A, t)') + 1
           /\ w \notin Among(A, t) /\ w \in Among(A, t)'
                => Cardinality(Among(A, t)') = Cardinality(Among(A, t)) + 1
           /\ (w \in Among(A, t) <=> w \in Among(A, t)')
                => Cardinality(Among(A, t)') = Cardinality(Among(A, t))
<1>1. PICK S \in SUBSET Workers : S = Among(A, t)
  BY DEF Among
<1>2. PICK T \in SUBSET Workers : T = Among(A, t)'
  BY DEF Among
<1>3. IsFiniteSet(S) /\ IsFiniteSet(T)
  BY ServicesAssumption, FS_Subset
<1>4. Cardinality(S) \in Nat /\ Cardinality(T) \in Nat
  BY <1>3, FS_CardinalityType
<1>5. \A v \in Workers \ {w} : v \in S <=> v \in T
  BY <1>1, <1>2 DEF Among
<1>6. ASSUME w \in S, w \notin T PROVE Cardinality(S) = Cardinality(T) + 1
  <2>1. S = T \cup {w}
    BY <1>5, <1>6
  <2>. QED BY <1>3, <1>6, <2>1, FS_AddElement
<1>7. ASSUME w \notin S, w \in T PROVE Cardinality(T) = Cardinality(S) + 1
  <2>1. T = S \cup {w}
    BY <1>5, <1>7
  <2>. QED BY <1>3, <1>7, <2>1, FS_AddElement
<1>8. ASSUME w \in S <=> w \in T PROVE S = T
  BY <1>5, <1>8
<1>. QED BY <1>1, <1>2, <1>4, <1>6, <1>7, <1>8

\* Whether a call is among those of a tenant that have come to some steps.
LEMMA InAmong ==
    ASSUME NEW w \in Workers, NEW A, NEW t
    PROVE  /\ w \in Among(A, t) <=> call[w].at \in A /\ call[w].tenant = t
           /\ w \in Among(A, t)' <=> call'[w].at \in A /\ call'[w].tenant = t
  BY DEF Among

-----------------------------------------------------------------------------
(* The counters.                                                           *)

\* The counters account for a step that leaves them and the table's keys alone
\* and moves a call to a place where nothing is counted, unless it left the one
\* where a key is about to be.
LEMMA CountsKeep ==
    ASSUME Counts, UNCHANGED <<quotaVars, calls>>, DOMAIN vault' = DOMAIN vault, Lasting,
           NEW w \in Workers,
           \A v \in Workers \ {w} : call'[v].at = call[v].at /\ call'[v].tenant = call[v].tenant,
           call[w].at # "count", call'[w].at \notin {"count", "day", "request"}
    PROVE  Counts'
<1>1. CounterShape'
  BY DEF Counts, CounterShape, quotaVars
<1>2. ASSUME NEW t \in ServiceTenants
      PROVE  /\ KeysOf(t)' = KeysOf(t)
             /\ Cardinality(Among({"count"}, t)') = Cardinality(Among({"count"}, t))
             /\ \A A \in {{"day"}, {"request"}, {"request", "day"}} :
                  /\ Cardinality(Among(A, t)) \in Nat /\ Cardinality(Among(A, t)') \in Nat
                  /\ Cardinality(Among(A, t)') <= Cardinality(Among(A, t))
  <2>1. KeysOf(t)' = KeysOf(t)
    BY DEF KeysOf, Lasting
  <2>2. w \notin Among({"count"}, t) /\ w \notin Among({"count"}, t)'
    BY InAmong
  <2>3. Cardinality(Among({"count"}, t)') = Cardinality(Among({"count"}, t))
    BY <2>2, Recount
  <2>4. ASSUME NEW A \in {{"day"}, {"request"}, {"request", "day"}}
        PROVE  /\ Cardinality(Among(A, t)) \in Nat /\ Cardinality(Among(A, t)') \in Nat
               /\ Cardinality(Among(A, t)') <= Cardinality(Among(A, t))
    <3>1. w \notin Among(A, t)'
      BY InAmong
    <3>. QED BY <3>1, Recount
  <2>. QED BY <2>1, <2>3, <2>4
<1>3. KeysCounted'
  BY <1>2 DEF Counts, KeysCounted, quotaVars
<1>4. ASSUME NEW t \in ServiceTenants
      PROVE  /\ passed[t].minute + Cardinality(Among({"day"}, t)') <= windows[t].minute
             /\ passed[t].minute + Cardinality(Among({"day"}, t)') <= MaxRequests
             /\ passed[t].day <= windows[t].day /\ passed[t].day <= MaxDaily
             /\ windows[t].minute + Cardinality(Among({"request"}, t)') <= calls
             /\ windows[t].day + Cardinality(Among({"request", "day"}, t)') <= calls
  <2>1. /\ {passed[t].minute, passed[t].day, windows[t].minute, windows[t].day, calls} \subseteq Nat
        /\ MaxRequests \in Nat /\ MaxDaily \in Nat
    BY ServicesAssumption DEF Counts, CounterShape
  <2>2. \A A \in {{"day"}, {"request"}, {"request", "day"}} :
          /\ Cardinality(Among(A, t)) \in Nat /\ Cardinality(Among(A, t)') \in Nat
          /\ Cardinality(Among(A, t)') <= Cardinality(Among(A, t))
    BY <1>2
  <2>. QED BY <2>1, <2>2 DEF Counts, RequestsCounted
<1>5. RequestsCounted'
  BY <1>4 DEF RequestsCounted, quotaVars
<1>. QED BY <1>1, <1>3, <1>5 DEF Counts

-----------------------------------------------------------------------------
(* The steps that count nothing.                                           *)

\* A call is over.
LEMMA FinishStep ==
    ASSUME ServicesInv, NEW w \in Workers, Finish(w), call[w].at # "count",
           UNCHANGED <<quotaVars, calls>>,
           DOMAIN vault' = DOMAIN vault, Steady, vault' \in [DOMAIN vault -> AKey],
           envelopes' \subseteq Envelope, EnvelopeKnows', AnswerKnows'
    PROVE  ServicesInv'
<1>1. /\ call' \in [Workers -> ACall] /\ \A v \in Workers \ {w} : call'[v] = call[v]
      /\ call'[w].at = "idle" /\ call'[w].op = "none" /\ call'[w].asked = 0
  BY FinishIs DEF ServicesInv, Faithful, StoreShape
<1>2. StoreShape'
  BY <1>1 DEF ServicesInv, Faithful, StoreShape
<1>3. Knows(w)'
  BY <1>1 DEF Knows, Looking
<1>4. CallKnows'
  BY <1>1, <1>3, OthersKnow DEF ServicesInv, Faithful
<1>5. Counts'
  BY <1>1, CountsKeep DEF ServicesInv, Steady
<1>. QED BY <1>2, <1>4, <1>5 DEF ServicesInv, Faithful

\* A call is over and has changed nothing.
LEMMA QuietFinish ==
    ASSUME ServicesInv, NEW w \in Workers, Finish(w), call[w].at # "count",
           UNCHANGED <<vault, calls, envelopes, answers, quotaVars>>
    PROVE  ServicesInv'
<1>1. /\ DOMAIN vault' = DOMAIN vault /\ Steady /\ vault' \in [DOMAIN vault -> AKey]
      /\ envelopes' \subseteq Envelope
  BY SteadyWhenUnchanged DEF ServicesInv, Faithful, StoreShape
<1>2. EnvelopeKnows'
  BY <1>1, EnvelopesKnow DEF ServicesInv, Faithful, Steady
<1>3. AnswerKnows'
  BY DEF ServicesInv, Faithful, AnswerKnows, AnswersAskedVersion
<1>. QED BY <1>1, <1>2, <1>3, FinishStep

\* A call goes on to a step where nothing is counted.
LEMMA MoveStep ==
    ASSUME ServicesInv, NEW w \in Workers, call[w].at # "count",
           call' \in [Workers -> ACall], \A v \in Workers \ {w} : call'[v] = call[v],
           call'[w].at \notin {"count", "day", "request"}, Knows(w)',
           UNCHANGED <<vault, calls, envelopes, answers, quotaVars>>
    PROVE  ServicesInv'
<1>1. DOMAIN vault' = DOMAIN vault /\ Steady
  BY SteadyWhenUnchanged
<1>2. StoreShape'
  BY DEF ServicesInv, Faithful, StoreShape
<1>3. CallKnows'
  BY <1>1, OthersKnow DEF ServicesInv, Faithful
<1>4. EnvelopeKnows'
  BY <1>1, EnvelopesKnow DEF ServicesInv, Faithful, Steady
<1>5. AnswerKnows'
  BY DEF ServicesInv, Faithful, AnswerKnows, AnswersAskedVersion
<1>6. Counts'
  BY <1>1, CountsKeep DEF ServicesInv, Steady
<1>. QED BY <1>2, <1>3, <1>4, <1>5, <1>6 DEF ServicesInv, Faithful

\* can_create_key, which only reads the counter.
LEMMA CanCreateStep ==
    ASSUME ServicesInv, NEW w \in Workers, can_create_key(w)
    PROVE  ServicesInv'
<1>1. /\ call[w].at = "quota" /\ UNCHANGED <<vault, calls, envelopes, answers, quotaVars>>
      /\ Finish(w) \/ Move(w, "make")
  BY DEF can_create_key, Reached
<1>2. CASE Finish(w)
  BY <1>1, <1>2, QuietFinish
<1>3. CASE Move(w, "make")
  <2>1. "make" \in Steps
    BY DEF Steps
  <2>2. /\ call' \in [Workers -> ACall] /\ \A v \in Workers \ {w} : call'[v] = call[v]
        /\ call'[w].at = "make" /\ call'[w].op = call[w].op
        /\ call'[w].tenant = call[w].tenant /\ call'[w].asked = call[w].asked
    BY <1>3, <2>1, MoveIs DEF ServicesInv, Faithful, StoreShape
  <2>3. Knows(w)'
    BY <1>1, <2>2 DEF Knows, Looking, ServicesInv, Faithful, CallKnows
  <2>. QED BY <1>1, <2>2, <2>3, MoveStep
<1>. QED BY <1>1, <1>2, <1>3

\* Between a call's look at a key and its use of it.
LEMMA OnwardStep ==
    ASSUME ServicesInv, NEW w \in Workers, NEW at \in {"meta", "use"}, Move(w, at),
           call[w].at \in {"request", "day", "old"}, at = "use" => call[w].at = "old",
           UNCHANGED <<vault, calls, envelopes, answers, quotaVars>>
    PROVE  ServicesInv'
<1>1. at \in Steps
  BY DEF Steps
<1>2. /\ call' \in [Workers -> ACall] /\ \A v \in Workers \ {w} : call'[v] = call[v]
      /\ call'[w].at = at /\ call'[w].op = call[w].op /\ call'[w].key = call[w].key
      /\ call'[w].tenant = call[w].tenant /\ call'[w].version = call[w].version
      /\ call'[w].asked = call[w].asked /\ call'[w].raced = call[w].raced
  BY <1>1, MoveIs DEF ServicesInv, Faithful, StoreShape
<1>3. Knows(w)'
  <2>1. Knows(w)
    BY DEF ServicesInv, Faithful, CallKnows
  <2>. QED BY <1>2, <2>1 DEF Knows, Looking
<1>. QED BY <1>2, <1>3, MoveStep

\* rewrap_dek opens the envelope under the version on its label.
LEMMA RewrapOldStep ==
    ASSUME ServicesInv, NEW w \in Workers, rewrap_old(w)
    PROVE  ServicesInv'
<1>1. /\ call[w].at = "old" /\ UNCHANGED <<vault, calls, envelopes, answers, quotaVars>>
      /\ Finish(w) \/ Move(w, "use")
  BY DEF rewrap_old, Reached
<1>. QED BY <1>1, QuietFinish, OnwardStep

\* The version a call reads is the current one.
LEMMA MetadataStep ==
    ASSUME ServicesInv, NEW w \in Workers, get_key_metadata(w)
    PROVE  ServicesInv'
<1>1. PICK c \in ACall : c = call[w]
  BY DEF ServicesInv, Faithful, StoreShape
<1>2. Knows(w) /\ c.at = "meta" /\ UNCHANGED <<vault, calls, envelopes, answers, quotaVars>>
  BY <1>1 DEF get_key_metadata, Reached, ServicesInv, Faithful, CallKnows
<1>3. c.key \in DOMAIN vault
  BY <1>1, <1>2 DEF Knows, Looking
<1>4. PICK n \in 1..MaxVersion : n = vault[c.key].version
  BY <1>3 DEF ServicesInv, Faithful, StoreShape, AKey
<1>5. CASE Finish(w)
  BY <1>1, <1>2, <1>5, QuietFinish
<1>6. ASSUME NEW at \in {"old", "use"}, call' = [call EXCEPT ![w].version = n, ![w].at = at]
      PROVE  ServicesInv'
  <2>1. at \in Steps /\ n \in Nat
    BY ServicesAssumption DEF Steps
  <2>2. PICK d : d = [[c EXCEPT !.version = n] EXCEPT !.at = at]
    OBVIOUS
  <2>3. /\ d \in ACall /\ d.at = at /\ d.version = n /\ d.op = c.op /\ d.key = c.key
        /\ d.tenant = c.tenant /\ d.asked = c.asked
    BY <1>1, <2>1, <2>2 DEF ACall
  <2>4. call' = [call EXCEPT ![w] = d]
    BY <1>1, <1>6, <2>2 DEF ServicesInv, Faithful, StoreShape
  <2>5. /\ call' \in [Workers -> ACall] /\ \A v \in Workers \ {w} : call'[v] = call[v]
        /\ call'[w] = d
    BY <2>3, <2>4 DEF ServicesInv, Faithful, StoreShape
  <2>6. Knows(w)'
    BY <1>1, <1>2, <1>3, <1>4, <2>3, <2>5 DEF Knows, Looking
  <2>. QED BY <1>1, <1>2, <2>3, <2>5, <2>6, MoveStep
<1>7. \/ Finish(w)
      \/ call' = [call EXCEPT ![w].version = n, ![w].at = "old"]
      \/ call' = [call EXCEPT ![w].version = n, ![w].at = "use"]
  BY <1>1, <1>4 DEF get_key_metadata
<1>. QED BY <1>5, <1>6, <1>7

-----------------------------------------------------------------------------
(* The key store works.                                                    *)

\* An answer: of the caller's own key, and under the version asked for or
\* told, unless a rotation overtook the call.
LEMMA AnswerStep ==
    ASSUME ServicesInv, NEW w \in Workers, call[w].at = "use", Finish(w),
           NEW label, NEW used,
           \/ UNCHANGED answers
           \/ /\ Serves(call[w].key, call[w].tenant)
              /\ Answer(call[w], label, used)
              /\ ~call[w].raced => /\ call[w].asked # 0 => used = call[w].asked
                                   /\ call[w].asked = 0 => used = label,
           UNCHANGED <<vault, calls, envelopes, quotaVars>>
    PROVE  ServicesInv'
<1>1. CASE UNCHANGED answers
  BY <1>1, QuietFinish
<1>2. CASE /\ Serves(call[w].key, call[w].tenant)
           /\ Answer(call[w], label, used)
           /\ ~call[w].raced => /\ call[w].asked # 0 => used = call[w].asked
                                /\ call[w].asked = 0 => used = label
  <2>1. PICK c : c = call[w]
    OBVIOUS
  <2>2. PICK o : o = vault[c.key].tenant /\ o = c.tenant
    BY <1>2, <2>1 DEF Serves
  <2>3. PICK b : b = c.raced
    OBVIOUS
  <2>4. answers' = {[tenant |-> c.tenant, owner |-> o, asked |-> c.asked,
                     label |-> label, used |-> used, raced |-> b]}
    BY <1>2, <2>1, <2>2, <2>3 DEF Answer
  <2>5. ~b => (c.asked # 0 => used = c.asked) /\ (c.asked = 0 => used = label)
    BY <1>2, <2>1, <2>3
  <2>6. \A a \in answers' : /\ a.owner = o /\ a.tenant = c.tenant /\ a.asked = c.asked
                            /\ a.label = label /\ a.used = used /\ a.raced = b
    BY <2>4
  <2>7. AnswerKnows'
    BY <2>2, <2>5, <2>6 DEF AnswerKnows, AnswersAskedVersion
  <2>8. /\ DOMAIN vault' = DOMAIN vault /\ Steady /\ vault' \in [DOMAIN vault -> AKey]
        /\ envelopes' \subseteq Envelope
    BY SteadyWhenUnchanged DEF ServicesInv, Faithful, StoreShape
  <2>9. EnvelopeKnows'
    BY <2>8, EnvelopesKnow DEF ServicesInv, Faithful, Steady
  <2>. QED BY <2>7, <2>8, <2>9, FinishStep
<1>. QED BY <1>1, <1>2

\* The cryptographic calls.
LEMMA UseStep ==
    ASSUME ServicesInv, NEW w \in Workers,
           \/ encrypt(w) \/ decrypt(w) \/ sign(w) \/ verify(w) \/ hmac(w) \/ hmac_verify(w)
    PROVE  ServicesInv'
<1>1. PICK n : n = vault[call[w].key].version
  OBVIOUS
<1>2. PICK m : m = call[w].version
  OBVIOUS
<1>3. PICK label \in {n, m} :
        /\ call[w].at = "use" /\ call[w].op = "crypto" /\ Finish(w)
        /\ UNCHANGED <<vault, calls, envelopes, quotaVars>>
        /\ IF Serves(call[w].key, call[w].tenant) THEN Answer(call[w], label, n)
           ELSE UNCHANGED answers
  <2>. USE <1>1, <1>2 DEF UseKey, Kind, CountedOps, CryptoOps, Reached
  <2>1. CASE encrypt(w)
    BY <2>1 DEF encrypt
  <2>2. CASE decrypt(w)
    BY <2>2 DEF decrypt
  <2>3. CASE sign(w)
    BY <2>3 DEF sign
  <2>4. CASE verify(w)
    BY <2>4 DEF verify
  <2>5. CASE hmac(w)
    BY <2>5 DEF hmac
  <2>6. CASE hmac_verify(w)
    BY <2>6 DEF hmac_verify
  <2>. QED BY <2>1, <2>2, <2>3, <2>4, <2>5, <2>6
<1>4. Knows(w)
  BY DEF ServicesInv, Faithful, CallKnows
<1>5. call[w].asked = 0 /\ (~call[w].raced => n = label)
  BY <1>1, <1>2, <1>3, <1>4 DEF Knows
<1>. QED BY <1>3, <1>5, AnswerStep

\* The export of a version.
LEMMA ExportStep ==
    ASSUME ServicesInv, NEW w \in Workers, export_key(w)
    PROVE  ServicesInv'
<1>1. PICK n : n = vault[call[w].key].version
  OBVIOUS
<1>2. PICK m : m = call[w].version
  OBVIOUS
<1>3. PICK x : x = IF call[w].asked \in {0, m} THEN n ELSE call[w].asked
  OBVIOUS
<1>4. /\ call[w].at = "use" /\ Finish(w) /\ UNCHANGED <<vault, calls, envelopes, quotaVars>>
      /\ \/ UNCHANGED answers
         \/ Serves(call[w].key, call[w].tenant) /\ Answer(call[w], m, x)
  <2>1. Exported(call[w]) = x
    BY <1>1, <1>2, <1>3 DEF Exported
  <2>. QED BY <1>2, <2>1 DEF export_key, Reached
<1>5. Knows(w)
  BY DEF ServicesInv, Faithful, CallKnows
<1>6. ~call[w].raced => n = m
  BY <1>1, <1>2, <1>4, <1>5 DEF Knows
<1>7. ~call[w].raced => /\ call[w].asked # 0 => x = call[w].asked
                        /\ call[w].asked = 0 => x = m
  BY <1>3, <1>6
<1>. QED BY <1>4, <1>7, AnswerStep

\* A new envelope bears the version the call read and is sealed under the
\* current one.
LEMMA SealStep ==
    ASSUME ServicesInv, NEW w \in Workers, call[w].at = "use", Finish(w),
           \/ UNCHANGED envelopes
           \/ Serves(call[w].key, call[w].tenant) /\ envelopes' = envelopes \cup {Seal(call[w])},
           UNCHANGED <<vault, calls, answers, quotaVars>>
    PROVE  ServicesInv'
<1>1. CASE UNCHANGED envelopes
  BY <1>1, QuietFinish
<1>2. CASE Serves(call[w].key, call[w].tenant) /\ envelopes' = envelopes \cup {Seal(call[w])}
  <2>1. PICK c \in ACall : c = call[w]
    BY DEF ServicesInv, Faithful, StoreShape
  <2>2. Knows(w)
    BY DEF ServicesInv, Faithful, CallKnows
  <2>3. /\ c.key \in DOMAIN vault /\ c.key \in ServiceKeys /\ vault[c.key].tenant = c.tenant
        /\ c.version \in 1..MaxVersion
        /\ ~c.raced => c.version = vault[c.key].version
    BY <1>2, <2>1, <2>2 DEF Knows, Looking, Serves, ServicesInv, Faithful, StoreShape
  <2>4. PICK n \in 1..MaxVersion : n = vault[c.key].version
    BY <2>3 DEF ServicesInv, Faithful, StoreShape, AKey
  <2>5. PICK e : e = [key |-> c.key, label |-> c.version, sealed |-> n, tenant |-> c.tenant,
                      raced |-> c.raced]
    OBVIOUS
  <2>6. /\ e \in Envelope /\ e.key = c.key /\ e.label = c.version /\ e.sealed = n
        /\ e.tenant = c.tenant /\ e.raced = c.raced
    <3>1. /\ c.key \in ServiceKeys \cup {"none"} /\ c.version \in Nat /\ n \in Nat
          /\ c.tenant \in ServiceTenants \cup {"none"} /\ c.raced \in BOOLEAN
      BY <2>1, <2>4, ServicesAssumption DEF ACall
    <3>. QED BY <2>5, <3>1 DEF Envelope
  <2>7. envelopes' = envelopes \cup {e}
    BY <1>2, <2>1, <2>4, <2>5 DEF Seal
  <2>8. envelopes' \subseteq Envelope
    BY <2>6, <2>7 DEF ServicesInv, Faithful, StoreShape
  <2>9. EnvelopeKnows'
    BY <2>3, <2>4, <2>6, <2>7 DEF EnvelopeKnows, ServicesInv, Faithful
  <2>10. AnswerKnows'
    BY DEF ServicesInv, Faithful, AnswerKnows, AnswersAskedVersion
  <2>11. DOMAIN vault' = DOMAIN vault /\ Steady /\ vault' \in [DOMAIN vault -> AKey]
    BY SteadyWhenUnchanged DEF ServicesInv, Faithful, StoreShape
  <2>. QED BY <2>8, <2>9, <2>10, <2>11, FinishStep
<1>. QED BY <1>1, <1>2

\* envelope_encrypt and the second half of rewrap_dek seal an envelope.
LEMMA EnvelopeStep ==
    ASSUME ServicesInv, NEW w \in Workers, envelope_encrypt(w) \/ rewrap_new(w)
    PROVE  ServicesInv'
<1>1. /\ call[w].at = "use" /\ Finish(w) /\ UNCHANGED <<vault, calls, answers, quotaVars>>
      /\ \/ UNCHANGED envelopes
         \/ Serves(call[w].key, call[w].tenant) /\ envelopes' = envelopes \cup {Seal(call[w])}
  BY DEF envelope_encrypt, rewrap_new, Rewrapped, Reached
<1>. QED BY <1>1, SealStep

\* delete_key leaves the key in the table, dead, with its tenant and version.
LEMMA DeleteStep ==
    ASSUME ServicesInv, NEW w \in Workers, delete_key(w)
    PROVE  ServicesInv'
<1>1. /\ call[w].at = "use" /\ Finish(w) /\ UNCHANGED <<calls, envelopes, answers, quotaVars>>
  BY DEF delete_key, Reached
<1>2. CASE UNCHANGED vault
  BY <1>1, <1>2, QuietFinish
<1>3. CASE /\ Serves(call[w].key, call[w].tenant)
           /\ vault' = [vault EXCEPT ![call[w].key].alive = FALSE]
  <2>1. PICK k \in DOMAIN vault : k = call[w].key
    BY <1>3 DEF Serves
  <2>2. PICK x \in AKey : x = vault[k]
    BY DEF ServicesInv, Faithful, StoreShape
  <2>3. PICK b \in BOOLEAN : b = FALSE
    OBVIOUS
  <2>4. PICK y : y = [x EXCEPT !.alive = b]
    OBVIOUS
  <2>5. y \in AKey /\ y.tenant = x.tenant /\ y.version = x.version
    BY <2>2, <2>4 DEF AKey
  <2>6. vault' = [vault EXCEPT ![k] = y]
    BY <1>3, <2>1, <2>2, <2>3, <2>4, Zenon
  <2>7. /\ DOMAIN vault' = DOMAIN vault /\ vault' \in [DOMAIN vault -> AKey]
        /\ \A j \in DOMAIN vault : vault'[j] = IF j = k THEN y ELSE vault[j]
    BY <2>5, <2>6 DEF ServicesInv, Faithful, StoreShape
  <2>8. Steady
    BY <2>2, <2>5, <2>7 DEF Steady, Lasting
  <2>9. EnvelopeKnows'
    BY <1>1, <2>8, EnvelopesKnow DEF ServicesInv, Faithful, Steady
  <2>10. AnswerKnows' /\ envelopes' \subseteq Envelope
    BY <1>1 DEF ServicesInv, Faithful, StoreShape, AnswerKnows, AnswersAskedVersion
  <2>. QED BY <1>1, <2>7, <2>8, <2>9, <2>10, FinishStep
<1>. QED BY <1>2, <1>3 DEF delete_key

\* A rotation makes a version, and marks the calls that have read the one before.
LEMMA RotateStep ==
    ASSUME ServicesInv, NEW w \in Workers, rotate_key(w)
    PROVE  ServicesInv'
<1>1. call[w].at = "use" /\ UNCHANGED <<calls, envelopes, answers, quotaVars>>
  BY DEF rotate_key, Reached
<1>2. CASE Finish(w) /\ UNCHANGED vault
  BY <1>1, <1>2, QuietFinish
<1>3. CASE /\ Serves(call[w].key, call[w].tenant)
           /\ vault[call[w].key].version < MaxVersion
           /\ vault' = [vault EXCEPT ![call[w].key].version = @ + 1]
           /\ call' = [Raced(call[w].key) EXCEPT ![w] = Idle]
  <2>1. PICK k \in DOMAIN vault : k = call[w].key
    BY <1>3 DEF Serves
  <2>2. PICK x \in AKey : x = vault[k]
    BY DEF ServicesInv, Faithful, StoreShape
  <2>3. PICK y : y = [x EXCEPT !.version = x.version + 1]
    OBVIOUS
  <2>4. x.version \in 1..MaxVersion /\ x.version + 1 \in 1..MaxVersion
    BY <1>3, <2>1, <2>2, ServicesAssumption DEF AKey
  <2>5. y \in AKey /\ y.tenant = x.tenant
    BY <2>2, <2>3, <2>4 DEF AKey
  <2>6. vault' = [vault EXCEPT ![k] = y]
    BY <1>3, <2>1, <2>2, <2>3
  <2>7. /\ DOMAIN vault' = DOMAIN vault /\ vault' \in [DOMAIN vault -> AKey]
        /\ \A j \in DOMAIN vault : vault'[j] = IF j = k THEN y ELSE vault[j]
    BY <2>5, <2>6 DEF ServicesInv, Faithful, StoreShape
  <2>8. Lasting
    BY <2>2, <2>5, <2>7 DEF Lasting
  <2>9. /\ call'[w] = Idle /\ call'[w] \in ACall
        /\ DOMAIN call' = Workers /\ call' = [v \in Workers |-> call'[v]]
    BY <1>3, IdleIsACall DEF Raced
  <2>10. ASSUME NEW v \in Workers \ {w}
         PROVE  /\ call'[v] \in ACall
                /\ call'[v].at = call[v].at /\ call'[v].op = call[v].op /\ call'[v].key = call[v].key
                /\ call'[v].tenant = call[v].tenant /\ call'[v].version = call[v].version
                /\ call'[v].asked = call[v].asked
                /\ call[v].key = k /\ call[v].at \in {"old", "use"} => call'[v].raced
                /\ call[v].key # k => call'[v] = call[v]
    <3>1. PICK c \in ACall : c = call[v]
      BY DEF ServicesInv, Faithful, StoreShape
    <3>2. PICK b \in BOOLEAN : b = TRUE
      OBVIOUS
    <3>3. PICK d : d = [c EXCEPT !.raced = b]
      OBVIOUS
    <3>4. call'[v] = IF c.key = k /\ c.at \in {"old", "use"} THEN d ELSE c
      <4>1. d = [c EXCEPT !.raced = TRUE]
        BY <3>2, <3>3, Zenon
      <4>2. call'[v] = Raced(k)[v]
        BY <1>3, <2>1 DEF Raced
      <4>. QED BY <3>1, <4>1, <4>2 DEF Raced
    <3>5. /\ d \in ACall /\ d.at = c.at /\ d.op = c.op /\ d.key = c.key /\ d.tenant = c.tenant
          /\ d.version = c.version /\ d.asked = c.asked /\ d.raced = b
      BY <3>1, <3>3 DEF ACall
    <3>6. d.raced
      BY <3>2, <3>5
    <3>. QED BY <3>1, <3>4, <3>5, <3>6
  <2>11. call' \in [Workers -> ACall]
    <3>1. \A v \in Workers : call'[v] \in ACall
      BY <2>9, <2>10
    <3>. QED BY <2>9, <3>1
  <2>12. StoreShape'
    BY <1>1, <2>7, <2>11 DEF ServicesInv, Faithful, StoreShape
  <2>13. CallKnows'
    <3>1. Knows(w)'
      BY <2>9, IdleIsACall DEF Knows, Looking
    <3>2. ASSUME NEW v \in Workers \ {w} PROVE Knows(v)'
      <4>1. Knows(v)
        BY DEF ServicesInv, Faithful, CallKnows
      <4>. QED BY <2>7, <2>10, <4>1 DEF Knows, Looking
    <3>. QED BY <3>1, <3>2 DEF CallKnows
  <2>14. EnvelopeKnows' /\ AnswerKnows'
    BY <1>1, <2>8, EnvelopesKnow DEF ServicesInv, Faithful, AnswerKnows, AnswersAskedVersion
  <2>15. Counts'
    <3>1. call'[w].at = "idle"
      BY <2>9, IdleIsACall
    <3>. QED BY <1>1, <2>7, <2>8, <2>10, <3>1, CountsKeep DEF ServicesInv
  <2>. QED BY <2>12, <2>13, <2>14, <2>15 DEF ServicesInv, Faithful
<1>. QED BY <1>2, <1>3 DEF rotate_key

-----------------------------------------------------------------------------
(* The steps that count.                                                   *)

Ops == CountedOps \cup OwnerOps \cup CryptoOps \cup {"envelope_encrypt", "export_key", "rewrap_dek"}

\* A call begins: a cryptographic one will be counted as a request.
LEMMA BeginStep ==
    ASSUME ServicesInv, NEW w \in Workers, NEW op \in Ops, NEW t \in ServiceTenants, NEW k,
           op \notin CountedOps => k \in DOMAIN vault, op \in CountedOps => k = "none",
           NEW asked \in Nat, op # "export_key" => asked = 0, NEW e \in Envelope,
           Begin(w, op, t, k, asked, e)
    PROVE  ServicesInv'
<1>1. /\ call[w].at = "idle" /\ calls' = calls + 1 /\ calls < MaxCalls /\ answers' = {}
      /\ UNCHANGED <<vault, envelopes, quotaVars>>
  BY DEF Begin, Reached
<1>2. PICK at : at = IF op \in CountedOps THEN "quota"
                       ELSE IF op \in CryptoOps THEN "request" ELSE "meta"
  OBVIOUS
<1>3. at \in {"quota", "request", "meta"} /\ at \in Steps /\ (at # "quota" => k \in DOMAIN vault)
  BY <1>2 DEF Steps
<1>4. PICK o : o = Kind(op)
  OBVIOUS
<1>5. o \in Kinds /\ (o # "export_key" => op # "export_key")
  BY <1>4 DEF Kind, Ops, Kinds, CountedOps, OwnerOps, CryptoOps
<1>6. k \in ServiceKeys \cup {"none"}
  BY DEF ServicesInv, Faithful, StoreShape
<1>7. PICK d : d = [Idle EXCEPT !.at = at, !.op = o, !.tenant = t, !.key = k, !.asked = asked,
                              !.env = e]
  OBVIOUS
<1>8. d \in ACall /\ d.at = at /\ d.op = o /\ d.tenant = t /\ d.key = k /\ d.asked = asked
  <2>1. PICK i \in ACall : i = Idle
    BY IdleIsACall
  <2>2. d = [i EXCEPT !.at = at, !.op = o, !.tenant = t, !.key = k, !.asked = asked,
                              !.env = e]
    BY <1>7, <2>1
  <2>. QED BY <1>3, <1>5, <1>6, <2>2 DEF ACall
<1>9. call' = [call EXCEPT ![w] = d]
  BY <1>2, <1>4, <1>7 DEF Begin
<1>10. /\ call' \in [Workers -> ACall] /\ call'[w] = d
       /\ \A v \in Workers \ {w} : call'[v] = call[v]
  BY <1>8, <1>9 DEF ServicesInv, Faithful, StoreShape
<1>11. StoreShape'
  BY <1>1, <1>10 DEF ServicesInv, Faithful, StoreShape
<1>12. CallKnows'
  <2>1. Knows(w)'
    BY <1>1, <1>3, <1>5, <1>8, <1>10 DEF Knows, Looking
  <2>. QED BY <1>1, <1>10, <2>1, OthersKnow, SteadyWhenUnchanged DEF ServicesInv, Faithful
<1>13. EnvelopeKnows' /\ AnswerKnows'
  BY <1>1, EnvelopesKnow, SteadyWhenUnchanged
     DEF ServicesInv, Faithful, Steady, AnswerKnows, AnswersAskedVersion
<1>14. CounterShape'
  BY <1>1, ServicesAssumption DEF ServicesInv, Counts, CounterShape, quotaVars
<1>15. ASSUME NEW u \in ServiceTenants
       PROVE  /\ Cardinality(Among({"count"}, u)') = Cardinality(Among({"count"}, u))
              /\ Cardinality(Among({"day"}, u)') = Cardinality(Among({"day"}, u))
              /\ \A A \in {{"request"}, {"request", "day"}} :
                   /\ Cardinality(Among(A, u)) \in Nat /\ Cardinality(Among(A, u)') \in Nat
                   /\ Cardinality(Among(A, u)') <= Cardinality(Among(A, u)) + 1
  <2>1. \A v \in Workers \ {w} : call'[v].at = call[v].at /\ call'[v].tenant = call[v].tenant
    BY <1>10
  <2>2. \A A \in {{"count"}, {"day"}} : w \notin Among(A, u) /\ w \notin Among(A, u)'
    BY <1>1, <1>3, <1>8, <1>10, InAmong
  <2>3. \A A \in {{"count"}, {"day"}} : Cardinality(Among(A, u)') = Cardinality(Among(A, u))
    BY <2>1, <2>2, Recount, ZenonT(60)
  <2>4. ASSUME NEW A \in {{"request"}, {"request", "day"}}
        PROVE  /\ Cardinality(Among(A, u)) \in Nat /\ Cardinality(Among(A, u)') \in Nat
               /\ Cardinality(Among(A, u)') <= Cardinality(Among(A, u)) + 1
    <3>1. w \notin Among(A, u)
      BY <1>1, InAmong
    <3>. QED BY <2>1, <3>1, Recount
  <2>. QED BY <2>3, <2>4
<1>16. KeysCounted'
  BY <1>1, <1>15 DEF ServicesInv, Counts, KeysCounted, KeysOf, quotaVars
<1>17. ASSUME NEW u \in ServiceTenants
       PROVE  /\ passed[u].minute + Cardinality(Among({"day"}, u)') <= windows[u].minute
              /\ passed[u].minute + Cardinality(Among({"day"}, u)') <= MaxRequests
              /\ passed[u].day <= windows[u].day /\ passed[u].day <= MaxDaily
              /\ windows[u].minute + Cardinality(Among({"request"}, u)') <= calls + 1
              /\ windows[u].day + Cardinality(Among({"request", "day"}, u)') <= calls + 1
  <2>1. {windows[u].minute, windows[u].day, calls} \subseteq Nat
    BY DEF ServicesInv, Counts, CounterShape
  <2>2. \A A \in {{"request"}, {"request", "day"}} :
          /\ Cardinality(Among(A, u)) \in Nat /\ Cardinality(Among(A, u)') \in Nat
          /\ Cardinality(Among(A, u)') <= Cardinality(Among(A, u)) + 1
    BY <1>15
  <2>. QED BY <1>15, <2>1, <2>2 DEF ServicesInv, Counts, RequestsCounted
<1>18. RequestsCounted'
  BY <1>1, <1>17 DEF RequestsCounted, quotaVars
<1>. QED BY <1>11, <1>12, <1>13, <1>14, <1>16, <1>18 DEF ServicesInv, Faithful, Counts

\* A key is made for a tenant: the table has one more of its keys.
LEMMA NewKeyIs ==
    ASSUME ServicesInv, NEW t \in ServiceTenants, Free # {}, vault' = New(Fresh, t)
    PROVE  /\ vault' \in [DOMAIN vault' -> AKey] /\ DOMAIN vault' \subseteq ServiceKeys /\ Steady
           /\ Cardinality(KeysOf(t)') = Cardinality(KeysOf(t)) + 1
           /\ \A u \in ServiceTenants \ {t} : KeysOf(u)' = KeysOf(u)
<1>1. PICK k \in ServiceKeys \ DOMAIN vault : k = Fresh
  BY DEF Fresh, Free
<1>2. PICK b \in BOOLEAN : b = TRUE
  OBVIOUS
<1>3. PICK x : x = [tenant |-> t, version |-> 1, alive |-> b]
  OBVIOUS
<1>4. x \in AKey /\ x.tenant = t
  <2>1. 1 \in 1..MaxVersion
    BY ServicesAssumption
  <2>. QED BY <1>3, <2>1 DEF AKey
<1>5. x = [tenant |-> t, version |-> 1, alive |-> TRUE]
  BY <1>2, <1>3, Zenon
<1>6. vault' = [j \in DOMAIN vault \cup {k} |-> IF j = k THEN x ELSE vault[j]]
  BY <1>1, <1>5 DEF New
<1>7. /\ DOMAIN vault' = DOMAIN vault \cup {k} /\ vault'[k] = x
      /\ \A j \in DOMAIN vault : vault'[j] = vault[j]
  BY <1>1, <1>6
<1>8. vault' \in [DOMAIN vault' -> AKey]
  BY <1>4, <1>6, <1>7 DEF ServicesInv, Faithful, StoreShape
<1>9. DOMAIN vault' \subseteq ServiceKeys /\ Steady
  BY <1>1, <1>7 DEF ServicesInv, Faithful, StoreShape, Steady, Lasting
<1>10. KeysOf(t)' = KeysOf(t) \cup {k} /\ k \notin KeysOf(t)
  BY <1>1, <1>4, <1>7 DEF KeysOf
<1>11. IsFiniteSet(KeysOf(t))
  <2>1. KeysOf(t) \subseteq ServiceKeys
    BY DEF KeysOf, ServicesInv, Faithful, StoreShape
  <2>. QED BY <2>1, ServicesAssumption, FS_Subset
<1>12. Cardinality(KeysOf(t)') = Cardinality(KeysOf(t)) + 1
  BY <1>10, <1>11, FS_AddElement
<1>13. ASSUME NEW u \in ServiceTenants \ {t} PROVE KeysOf(u)' = KeysOf(u)
  BY <1>1, <1>4, <1>7 DEF KeysOf
<1>. QED BY <1>8, <1>9, <1>12, <1>13

\* The minute's and the day's counters have seen as much when nobody is at a
\* step where requests are counted that was not there before.
LEMMA RequestsKeep ==
    ASSUME RequestsCounted, CounterShape, UNCHANGED <<windows, passed>>, calls' \in Nat, calls <= calls',
           NEW w \in Workers,
           \A v \in Workers \ {w} : call'[v].at = call[v].at /\ call'[v].tenant = call[v].tenant,
           call'[w].at \in {"day", "request"} => call' = call
    PROVE  RequestsCounted'
<1>1. ASSUME NEW t \in ServiceTenants, NEW A \in {{"day"}, {"request"}, {"request", "day"}}
      PROVE  /\ Cardinality(Among(A, t)) \in Nat /\ Cardinality(Among(A, t)') \in Nat
             /\ Cardinality(Among(A, t)') <= Cardinality(Among(A, t))
  <2>1. CASE call'[w].at \in {"day", "request"}
    <3>1. Among(A, t)' = Among(A, t)
      BY <2>1 DEF Among
    <3>. QED BY <3>1, Recount
  <2>2. CASE call'[w].at \notin {"day", "request"}
    <3>1. w \notin Among(A, t)'
      BY <2>2, InAmong
    <3>. QED BY <3>1, Recount
  <2>. QED BY <2>1, <2>2
<1>2. ASSUME NEW t \in ServiceTenants
      PROVE  /\ passed[t].minute + Cardinality(Among({"day"}, t)') <= windows[t].minute
             /\ passed[t].minute + Cardinality(Among({"day"}, t)') <= MaxRequests
             /\ passed[t].day <= windows[t].day /\ passed[t].day <= MaxDaily
             /\ windows[t].minute + Cardinality(Among({"request"}, t)') <= calls'
             /\ windows[t].day + Cardinality(Among({"request", "day"}, t)') <= calls'
  <2>1. /\ {passed[t].minute, passed[t].day, windows[t].minute, windows[t].day, calls} \subseteq Nat
        /\ MaxRequests \in Nat /\ MaxDaily \in Nat
    BY ServicesAssumption DEF CounterShape
  <2>2. \A A \in {{"day"}, {"request"}, {"request", "day"}} :
          /\ Cardinality(Among(A, t)) \in Nat /\ Cardinality(Among(A, t)') \in Nat
          /\ Cardinality(Among(A, t)') <= Cardinality(Among(A, t))
    BY <1>1
  <2>. QED BY <2>1, <2>2 DEF RequestsCounted
<1>. QED BY <1>2 DEF RequestsCounted

\* A key is made, and its call is about to count it.
LEMMA GenerateStep ==
    ASSUME ServicesInv, NEW w \in Workers, generate_key(w)
    PROVE  ServicesInv'
<1>1. /\ call[w].at = "make"
      /\ UNCHANGED <<calls, envelopes, answers, counted, windows, uncounted, passed>>
  BY DEF generate_key, Reached
<1>2. CASE Finish(w) /\ UNCHANGED <<vault, made>>
  BY <1>1, <1>2, QuietFinish DEF quotaVars
<1>3. CASE /\ Free # {} /\ vault' = New(Fresh, call[w].tenant)
           /\ made' = [made EXCEPT ![call[w].tenant] = @ + 1] /\ Move(w, "count")
  <2>1. PICK t \in ServiceTenants : t = call[w].tenant
    BY <1>1 DEF ServicesInv, Faithful, CallKnows, Knows
  <2>2. /\ vault' \in [DOMAIN vault' -> AKey] /\ DOMAIN vault' \subseteq ServiceKeys /\ Steady
        /\ Cardinality(KeysOf(t)') = Cardinality(KeysOf(t)) + 1
        /\ \A u \in ServiceTenants \ {t} : KeysOf(u)' = KeysOf(u)
    BY <1>3, <2>1, NewKeyIs
  <2>3. "count" \in Steps
    BY DEF Steps
  <2>4. /\ call' \in [Workers -> ACall] /\ \A v \in Workers \ {w} : call'[v] = call[v]
        /\ call'[w].at = "count" /\ call'[w].op = call[w].op
        /\ call'[w].tenant = call[w].tenant /\ call'[w].asked = call[w].asked
    BY <1>3, <2>3, MoveIs DEF ServicesInv, Faithful, StoreShape
  <2>5. StoreShape'
    BY <1>1, <2>2, <2>4 DEF ServicesInv, Faithful, StoreShape
  <2>6. CallKnows'
    <3>1. Knows(w)'
      BY <1>1, <2>4 DEF Knows, Looking, ServicesInv, Faithful, CallKnows
    <3>. QED BY <2>2, <2>4, <3>1, OthersKnow DEF ServicesInv, Faithful
  <2>7. EnvelopeKnows' /\ AnswerKnows'
    BY <1>1, <2>2, EnvelopesKnow DEF ServicesInv, Faithful, Steady, AnswerKnows, AnswersAskedVersion
  <2>8. CounterShape'
    BY <1>1, <1>3, <2>1 DEF ServicesInv, Counts, CounterShape
  <2>9. RequestsCounted'
    BY <1>1, <2>4, RequestsKeep DEF ServicesInv, Counts, CounterShape
  <2>10. ASSUME NEW u \in ServiceTenants
         PROVE  /\ made'[u] = Cardinality(KeysOf(u)')
                /\ made'[u] = counted[u] + Cardinality(Among({"count"}, u)') + uncounted[u]
    <3>1. PICK m \in Nat : m = made[u] /\ made'[u] = IF u = t THEN m + 1 ELSE m
      BY <1>3, <2>1 DEF ServicesInv, Counts, CounterShape
    <3>2. PICK n \in Nat : n = counted[u]
      BY DEF ServicesInv, Counts, CounterShape
    <3>3. PICK x \in Nat : x = uncounted[u]
      BY DEF ServicesInv, Counts, CounterShape
    <3>4. m = Cardinality(KeysOf(u)) /\ m = n + Cardinality(Among({"count"}, u)) + x
      BY <3>1, <3>2, <3>3 DEF ServicesInv, Counts, KeysCounted
    <3>5. w \notin Among({"count"}, u) /\ (w \in Among({"count"}, u)' <=> u = t)
      BY <1>1, <2>1, <2>4, InAmong
    <3>6. PICK i \in Nat : i = Cardinality(Among({"count"}, u))
      BY <2>4, Recount
    <3>7. Cardinality(Among({"count"}, u)') = IF u = t THEN i + 1 ELSE i
      BY <2>4, <3>5, <3>6, Recount
    <3>8. Cardinality(KeysOf(u)') = IF u = t THEN m + 1 ELSE m
      <4>1. CASE u = t
        BY <2>2, <3>4, <4>1
      <4>2. CASE u # t
        <5>1. KeysOf(u)' = KeysOf(u)
          BY <2>2, <4>2
        <5>. QED BY <3>4, <4>2, <5>1
      <4>. QED BY <4>1, <4>2
    <3>9. (IF u = t THEN m + 1 ELSE m) = n + (IF u = t THEN i + 1 ELSE i) + x
      BY <3>4, <3>6
    <3>. QED BY <3>1, <3>2, <3>3, <3>7, <3>8, <3>9
  <2>11. KeysCounted'
    BY <1>1, <2>10 DEF KeysCounted
  <2>. QED BY <2>5, <2>6, <2>7, <2>8, <2>9, <2>11 DEF ServicesInv, Faithful, Counts
<1>. QED BY <1>2, <1>3 DEF generate_key

\* What is known of calls, envelopes and answers while the calls stay and the
\* table keeps its keys.
LEMMA FaithfulKeeps ==
    ASSUME Faithful, UNCHANGED <<call, envelopes, answers>>, Steady,
           vault' \in [DOMAIN vault' -> AKey], DOMAIN vault' \subseteq ServiceKeys
    PROVE  Faithful'
<1>1. StoreShape'
  BY DEF Faithful, StoreShape
<1>2. CallKnows'
  BY DEF Faithful, CallKnows, Knows, Steady, Lasting, Looking
<1>3. EnvelopeKnows' /\ AnswerKnows'
  BY EnvelopesKnow DEF Faithful, Steady, AnswerKnows, AnswersAskedVersion
<1>. QED BY <1>1, <1>2, <1>3 DEF Faithful

\* A call that is over has told nothing new.
LEMMA FinishFaithful ==
    ASSUME Faithful, NEW w \in Workers, Finish(w), UNCHANGED <<vault, envelopes, answers>>
    PROVE  Faithful'
<1>1. /\ call' \in [Workers -> ACall] /\ \A v \in Workers \ {w} : call'[v] = call[v]
      /\ call'[w].at = "idle" /\ call'[w].op = "none" /\ call'[w].asked = 0
  BY FinishIs DEF Faithful, StoreShape
<1>2. StoreShape'
  BY <1>1 DEF Faithful, StoreShape
<1>3. Knows(w)'
  BY <1>1 DEF Knows, Looking
<1>4. CallKnows'
  BY <1>1, <1>3, OthersKnow, SteadyWhenUnchanged DEF Faithful
<1>5. EnvelopeKnows' /\ AnswerKnows'
  BY EnvelopesKnow, SteadyWhenUnchanged DEF Faithful, Steady, AnswerKnows, AnswersAskedVersion
<1>. QED BY <1>2, <1>4, <1>5 DEF Faithful

\* The key is counted, or its count is lost.
LEMMA IncrementStep ==
    ASSUME ServicesInv, NEW w \in Workers, increment_key_count(w)
    PROVE  ServicesInv'
<1>1. /\ call[w].at = "count" /\ Finish(w)
      /\ UNCHANGED <<vault, calls, envelopes, answers, made, windows, passed>>
  BY DEF increment_key_count, Reached
<1>2. PICK t \in ServiceTenants : t = call[w].tenant
  BY <1>1 DEF ServicesInv, Faithful, CallKnows, Knows
<1>3. \/ counted' = [counted EXCEPT ![t] = @ + 1] /\ UNCHANGED uncounted
      \/ uncounted' = [uncounted EXCEPT ![t] = @ + 1] /\ UNCHANGED counted
  BY <1>2 DEF increment_key_count
<1>4. Faithful'
  BY <1>1, FinishFaithful DEF ServicesInv
<1>5. /\ \A v \in Workers \ {w} : call'[v].at = call[v].at /\ call'[v].tenant = call[v].tenant
      /\ call'[w].at = "idle"
  BY <1>1, FinishIs DEF ServicesInv, Faithful, StoreShape
<1>6. CounterShape'
  <2>1. counted \in [ServiceTenants -> Nat] /\ uncounted \in [ServiceTenants -> Nat]
    BY DEF ServicesInv, Counts, CounterShape
  <2>2. counted' \in [ServiceTenants -> Nat] /\ uncounted' \in [ServiceTenants -> Nat]
    BY <1>3, <2>1
  <2> QED
    BY <1>1, <2>2 DEF ServicesInv, Counts, CounterShape
<1>7. RequestsCounted'
  BY <1>1, <1>5, RequestsKeep DEF ServicesInv, Counts, CounterShape
<1>8. ASSUME NEW u \in ServiceTenants
      PROVE  /\ made[u] = Cardinality(KeysOf(u))
             /\ made[u] = counted'[u] + Cardinality(Among({"count"}, u)') + uncounted'[u]
  <2>1. PICK n \in Nat : n = counted[u]
    BY DEF ServicesInv, Counts, CounterShape
  <2>2. PICK x \in Nat : x = uncounted[u]
    BY DEF ServicesInv, Counts, CounterShape
  <2>3. PICK i \in Nat : i = Cardinality(Among({"count"}, u)')
    BY <1>5, Recount
  <2>4. w \notin Among({"count"}, u)' /\ (w \in Among({"count"}, u) <=> u = t)
    BY <1>1, <1>2, <1>5, InAmong
  <2>5. Cardinality(Among({"count"}, u)) = IF u = t THEN i + 1 ELSE i
    BY <1>5, <2>3, <2>4, Recount
  <2>6. made[u] = Cardinality(KeysOf(u)) /\ made[u] = n + (IF u = t THEN i + 1 ELSE i) + x
    BY <2>1, <2>2, <2>5 DEF ServicesInv, Counts, KeysCounted
  <2>7. \/ counted'[u] = (IF u = t THEN n + 1 ELSE n) /\ uncounted'[u] = x
        \/ counted'[u] = n /\ uncounted'[u] = (IF u = t THEN x + 1 ELSE x)
    BY <1>3, <2>1, <2>2 DEF ServicesInv, Counts, CounterShape
  <2>8. counted'[u] + i + uncounted'[u] = n + (IF u = t THEN i + 1 ELSE i) + x
    BY <2>7
  <2>. QED BY <2>3, <2>6, <2>8
<1>9. KeysCounted'
  BY <1>1, <1>8 DEF KeysCounted, KeysOf
<1>. QED BY <1>4, <1>6, <1>7, <1>9 DEF ServicesInv, Counts

\* The time to live of the counter is over.
LEMMA ExpiresStep ==
    ASSUME ServicesInv, NEW t \in ServiceTenants, CounterExpires(t)
    PROVE  ServicesInv'
<1>1. /\ counted' = [counted EXCEPT ![t] = 0]
      /\ uncounted' = [uncounted EXCEPT ![t] = @ + counted[t]]
      /\ UNCHANGED <<vault, call, calls, envelopes, answers, made, windows, passed>>
  BY DEF CounterExpires
<1>2. Faithful'
  BY <1>1, FaithfulKeeps, SteadyWhenUnchanged DEF ServicesInv, Faithful, StoreShape
<1>3. CounterShape'
  BY <1>1 DEF ServicesInv, Counts, CounterShape
<1>4. RequestsCounted'
  BY <1>1 DEF ServicesInv, Counts, RequestsCounted, Among
<1>5. ASSUME NEW u \in ServiceTenants
      PROVE  /\ made[u] = Cardinality(KeysOf(u))
             /\ made[u] = counted'[u] + Cardinality(Among({"count"}, u)) + uncounted'[u]
  <2>1. PICK n \in Nat : n = counted[u]
    BY DEF ServicesInv, Counts, CounterShape
  <2>2. PICK x \in Nat : x = uncounted[u]
    BY DEF ServicesInv, Counts, CounterShape
  <2>3. PICK i \in Nat : i = Cardinality(Among({"count"}, u))
    <3>1. PICK w \in Workers : TRUE
      BY ServicesAssumption
    <3>. QED BY <1>1, <3>1, Recount
  <2>4. made[u] = Cardinality(KeysOf(u)) /\ made[u] = n + i + x
    BY <2>1, <2>2, <2>3 DEF ServicesInv, Counts, KeysCounted
  <2>5. \/ counted'[u] = n /\ uncounted'[u] = x
        \/ counted'[u] = 0 /\ uncounted'[u] = x + n
    BY <1>1, <2>1, <2>2 DEF ServicesInv, Counts, CounterShape
  <2>6. counted'[u] + i + uncounted'[u] = n + i + x
    BY <2>5
  <2>. QED BY <2>3, <2>4, <2>6
<1>6. KeysCounted'
  BY <1>1, <1>5 DEF KeysCounted, KeysOf, Among
<1>. QED BY <1>2, <1>3, <1>4, <1>6 DEF ServicesInv, Counts

\* An import over gRPC makes a key that no counter has.
LEMMA ImportStep ==
    ASSUME ServicesInv, NEW t \in ServiceTenants, grpc_import_key(t)
    PROVE  ServicesInv'
<1>1. /\ calls < MaxCalls /\ calls' = calls + 1 /\ Free # {} /\ vault' = New(Fresh, t)
      /\ made' = [made EXCEPT ![t] = @ + 1] /\ uncounted' = [uncounted EXCEPT ![t] = @ + 1]
      /\ UNCHANGED <<call, envelopes, answers, counted, windows, passed>>
  BY DEF grpc_import_key
<1>2. /\ vault' \in [DOMAIN vault' -> AKey] /\ DOMAIN vault' \subseteq ServiceKeys /\ Steady
      /\ Cardinality(KeysOf(t)') = Cardinality(KeysOf(t)) + 1
      /\ \A u \in ServiceTenants \ {t} : KeysOf(u)' = KeysOf(u)
  BY <1>1, NewKeyIs
<1>3. Faithful'
  BY <1>1, <1>2, FaithfulKeeps DEF ServicesInv
<1>4. CounterShape'
  BY <1>1, ServicesAssumption DEF ServicesInv, Counts, CounterShape
<1>5. RequestsCounted'
  <2>1. PICK w \in Workers : TRUE
    BY ServicesAssumption
  <2>2. calls' \in Nat /\ calls <= calls'
    BY <1>1 DEF ServicesInv, Counts, CounterShape
  <2>. QED BY <1>1, <2>1, <2>2, RequestsKeep DEF ServicesInv, Counts
<1>6. ASSUME NEW u \in ServiceTenants
      PROVE  /\ made'[u] = Cardinality(KeysOf(u)')
             /\ made'[u] = counted[u] + Cardinality(Among({"count"}, u)) + uncounted'[u]
  <2>1. PICK n \in Nat : n = counted[u]
    BY DEF ServicesInv, Counts, CounterShape
  <2>2. PICK x \in Nat : x = uncounted[u] /\ uncounted'[u] = IF u = t THEN x + 1 ELSE x
    BY <1>1 DEF ServicesInv, Counts, CounterShape
  <2>3. PICK m \in Nat : m = made[u] /\ made'[u] = IF u = t THEN m + 1 ELSE m
    BY <1>1 DEF ServicesInv, Counts, CounterShape
  <2>4. PICK i \in Nat : i = Cardinality(Among({"count"}, u))
    <3>1. PICK w \in Workers : TRUE
      BY ServicesAssumption
    <3>. QED BY <1>1, <3>1, Recount
  <2>5. m = Cardinality(KeysOf(u)) /\ m = n + i + x
    BY <2>1, <2>2, <2>3, <2>4 DEF ServicesInv, Counts, KeysCounted
  <2>6. Cardinality(KeysOf(u)') = IF u = t THEN m + 1 ELSE m
    <3>1. CASE u = t
      BY <1>2, <2>5, <3>1
    <3>2. CASE u # t
      <4>1. KeysOf(u)' = KeysOf(u)
        BY <1>2, <3>2
      <4>. QED BY <2>5, <3>2, <4>1
    <3>. QED BY <3>1, <3>2
  <2>7. (IF u = t THEN m + 1 ELSE m) = n + i + (IF u = t THEN x + 1 ELSE x)
    BY <2>5
  <2>. QED BY <2>1, <2>2, <2>3, <2>4, <2>6, <2>7
<1>7. KeysCounted'
  BY <1>1, <1>6 DEF KeysCounted, Among
<1>. QED BY <1>3, <1>4, <1>5, <1>7 DEF ServicesInv, Counts

Windows == [ServiceTenants -> [minute : Nat, day : Nat]]

\* One more request in one window of one tenant.
LEMMA BumpIs ==
    ASSUME NEW f \in Windows, NEW t \in ServiceTenants
    PROVE  /\ Bump(f, t, "minute") \in Windows /\ Bump(f, t, "day") \in Windows
           /\ Bump(f, t, "minute")[t].minute = f[t].minute + 1 /\ Bump(f, t, "minute")[t].day = f[t].day
           /\ Bump(f, t, "day")[t].day = f[t].day + 1 /\ Bump(f, t, "day")[t].minute = f[t].minute
           /\ \A u \in ServiceTenants \ {t} : Bump(f, t, "minute")[u] = f[u] /\ Bump(f, t, "day")[u] = f[u]
<1>1. PICK r \in [minute : Nat, day : Nat] : r = f[t]
  BY DEF Windows
<1>2. PICK x : x = [r EXCEPT !.minute = r.minute + 1]
  OBVIOUS
<1>3. PICK y : y = [r EXCEPT !.day = r.day + 1]
  OBVIOUS
<1>4. /\ x \in [minute : Nat, day : Nat] /\ x.minute = r.minute + 1 /\ x.day = r.day
      /\ y \in [minute : Nat, day : Nat] /\ y.day = r.day + 1 /\ y.minute = r.minute
  BY <1>1, <1>2, <1>3
<1>5. Bump(f, t, "minute") = [f EXCEPT ![t] = x]
  BY <1>1, <1>2 DEF Bump, Windows
<1>6. Bump(f, t, "day") = [f EXCEPT ![t] = y]
  BY <1>1, <1>3 DEF Bump, Windows
<1>. QED BY <1>1, <1>4, <1>5, <1>6 DEF Windows

\* A call that goes on past a counter of requests knows what it knew.
LEMMA OnwardFaithful ==
    ASSUME Faithful, NEW w \in Workers, NEW at \in {"day", "meta"}, Move(w, at),
           call[w].at \in {"request", "day"}, UNCHANGED <<vault, envelopes, answers>>
    PROVE  /\ Faithful' /\ call'[w].at = at /\ call'[w].tenant = call[w].tenant
           /\ \A v \in Workers \ {w} : call'[v].at = call[v].at /\ call'[v].tenant = call[v].tenant
<1>1. at \in Steps
  BY DEF Steps
<1>2. /\ call' \in [Workers -> ACall] /\ \A v \in Workers \ {w} : call'[v] = call[v]
      /\ call'[w].at = at /\ call'[w].op = call[w].op /\ call'[w].key = call[w].key
      /\ call'[w].tenant = call[w].tenant /\ call'[w].asked = call[w].asked
  BY <1>1, MoveIs DEF Faithful, StoreShape
<1>3. StoreShape'
  BY <1>2 DEF Faithful, StoreShape
<1>4. Knows(w)'
  <2>1. Knows(w)
    BY DEF Faithful, CallKnows
  <2>. QED BY <1>2, <2>1 DEF Knows, Looking
<1>5. CallKnows'
  BY <1>2, <1>4, OthersKnow, SteadyWhenUnchanged DEF Faithful
<1>6. EnvelopeKnows' /\ AnswerKnows'
  BY EnvelopesKnow, SteadyWhenUnchanged DEF Faithful, Steady, AnswerKnows, AnswersAskedVersion
<1>. QED BY <1>2, <1>3, <1>5, <1>6 DEF Faithful

\* The keys are as they were when nobody comes to, or leaves, the step that
\* counts them.
LEMMA KeysKeep ==
    ASSUME KeysCounted, UNCHANGED <<vault, counted, made, uncounted>>, NEW w \in Workers,
           \A v \in Workers \ {w} : call'[v].at = call[v].at /\ call'[v].tenant = call[v].tenant,
           call[w].at # "count", call'[w].at # "count"
    PROVE  KeysCounted'
<1>1. ASSUME NEW t \in ServiceTenants
      PROVE  Cardinality(Among({"count"}, t)') = Cardinality(Among({"count"}, t))
  <2>1. w \notin Among({"count"}, t) /\ w \notin Among({"count"}, t)'
    BY InAmong
  <2>. QED BY <2>1, Recount
<1>. QED BY <1>1 DEF KeysCounted, KeysOf

\* The minute's counter: a request holds its place in it only if that is within
\* the limit.
LEMMA MinuteStep ==
    ASSUME ServicesInv, NEW w \in Workers, record_minute(w)
    PROVE  ServicesInv'
<1>1. /\ call[w].at = "request"
      /\ UNCHANGED <<vault, calls, envelopes, answers, counted, made, uncounted, passed>>
  BY DEF record_minute, Reached
<1>2. PICK t \in ServiceTenants : t = call[w].tenant
  BY <1>1 DEF ServicesInv, Faithful, CallKnows, Knows
<1>3. CASE Move(w, "meta") /\ UNCHANGED windows
  BY <1>1, <1>3, OnwardStep DEF quotaVars
<1>4. CASE /\ windows' = Bump(windows, t, "minute")
           /\ \/ Finish(w)
              \/ Move(w, "day") /\ windows[t].minute + 1 <= MaxRequests
  <2>1. windows \in Windows /\ passed \in Windows
    BY DEF ServicesInv, Counts, CounterShape, Windows
  <2>2. /\ windows' \in Windows /\ windows'[t].minute = windows[t].minute + 1
        /\ windows'[t].day = windows[t].day
        /\ \A u \in ServiceTenants \ {t} : windows'[u] = windows[u]
    BY <1>4, <2>1, BumpIs
  <2>3. /\ Faithful'
        /\ \A v \in Workers \ {w} : call'[v].at = call[v].at /\ call'[v].tenant = call[v].tenant
        /\ \/ call'[w].at = "idle"
           \/ call'[w].at = "day" /\ call'[w].tenant = t /\ windows[t].minute + 1 <= MaxRequests
    <3>1. CASE Finish(w)
      BY <1>1, <3>1, FinishFaithful, FinishIs DEF ServicesInv, Faithful, StoreShape
    <3>2. CASE Move(w, "day") /\ windows[t].minute + 1 <= MaxRequests
      BY <1>1, <1>2, <3>2, OnwardFaithful DEF ServicesInv
    <3>. QED BY <1>4, <3>1, <3>2
  <2>4. CounterShape'
    BY <1>1, <2>2 DEF ServicesInv, Counts, CounterShape, Windows
  <2>5. KeysCounted'
    BY <1>1, <2>3, KeysKeep DEF ServicesInv, Counts
  <2>6. ASSUME NEW u \in ServiceTenants
        PROVE  /\ passed[u].minute + Cardinality(Among({"day"}, u)') <= windows'[u].minute
               /\ passed[u].minute + Cardinality(Among({"day"}, u)') <= MaxRequests
               /\ passed[u].day <= windows'[u].day /\ passed[u].day <= MaxDaily
               /\ windows'[u].minute + Cardinality(Among({"request"}, u)') <= calls
               /\ windows'[u].day + Cardinality(Among({"request", "day"}, u)') <= calls
    <3>1. PICK p \in Nat, q \in Nat : p = passed[u].minute /\ q = passed[u].day
      BY <2>1 DEF Windows
    <3>2. PICK m \in Nat, d \in Nat : m = windows[u].minute /\ d = windows[u].day
      BY <2>1 DEF Windows
    <3>3. windows'[u].minute = (IF u = t THEN m + 1 ELSE m) /\ windows'[u].day = d
      BY <2>2, <3>2
    <3>4. PICK n \in Nat : n = calls
      BY DEF ServicesInv, Counts, CounterShape
    <3>5. PICK x \in Nat, x1 \in Nat :
            x = Cardinality(Among({"day"}, u)) /\ x1 = Cardinality(Among({"day"}, u)')
      BY <2>3, Recount
    <3>6. PICK y \in Nat, y1 \in Nat :
            y = Cardinality(Among({"request"}, u)) /\ y1 = Cardinality(Among({"request"}, u)')
      BY <2>3, Recount
    <3>7. PICK z \in Nat, z1 \in Nat :
            z = Cardinality(Among({"request", "day"}, u)) /\ z1 = Cardinality(Among({"request", "day"}, u)')
      BY <2>3, Recount
    <3>8. /\ p + x <= m /\ p + x <= MaxRequests /\ q <= d /\ q <= MaxDaily
          /\ m + y <= n /\ d + z <= n
      BY <3>1, <3>2, <3>4, <3>5, <3>6, <3>7 DEF ServicesInv, Counts, RequestsCounted
    <3>9. y = IF u = t THEN y1 + 1 ELSE y1
      <4>1. (w \in Among({"request"}, u) <=> u = t) /\ w \notin Among({"request"}, u)'
        BY <1>1, <1>2, <2>3, InAmong
      <4>. QED BY <2>3, <3>6, <4>1, Recount
    <3>10. z1 <= z
      <4>1. w \in Among({"request", "day"}, u)' => w \in Among({"request", "day"}, u)
        BY <1>1, <1>2, <2>3, InAmong
      <4>. QED BY <2>3, <3>7, <4>1, Recount
    <3>11. x1 = x \/ (x1 = x + 1 /\ u = t /\ m + 1 <= MaxRequests)
      <4>1. w \notin Among({"day"}, u)
        BY <1>1, InAmong
      <4>2. w \in Among({"day"}, u)' => u = t /\ m + 1 <= MaxRequests
        BY <2>3, <3>2, InAmong
      <4>. QED BY <2>3, <3>5, <4>1, <4>2, Recount
    <3>12. MaxRequests \in Nat /\ MaxDaily \in Nat
      BY ServicesAssumption
    <3>13. PICK m1 \in Nat : m1 = IF u = t THEN m + 1 ELSE m
      OBVIOUS
    <3>14. p + x1 <= m1 /\ p + x1 <= MaxRequests /\ m1 + y1 <= n /\ d + z1 <= n
      BY <3>8, <3>9, <3>10, <3>11, <3>12, <3>13
    <3>. QED BY <3>1, <3>3, <3>4, <3>5, <3>6, <3>7, <3>8, <3>13, <3>14
  <2>7. RequestsCounted'
    BY <1>1, <2>6 DEF RequestsCounted
  <2>. QED BY <2>3, <2>4, <2>5, <2>7 DEF ServicesInv, Counts
<1>5. windows[t].minute \in Nat /\ MaxRequests \in Nat
  BY ServicesAssumption DEF ServicesInv, Counts, CounterShape
<1>6. ~Exceeds(windows[t].minute + 1, MaxRequests) => windows[t].minute + 1 <= MaxRequests
  BY <1>5 DEF Exceeds
<1>. QED BY <1>2, <1>3, <1>4, <1>6 DEF record_minute

\* The day's counter: a request that passes it gives its place up and is let
\* through.
LEMMA DayStep ==
    ASSUME ServicesInv, NEW w \in Workers, record_day(w)
    PROVE  ServicesInv'
<1>1. /\ call[w].at = "day" /\ UNCHANGED <<vault, calls, envelopes, answers, counted, made, uncounted>>
  BY DEF record_day, Reached
<1>2. PICK t \in ServiceTenants : t = call[w].tenant
  BY <1>1 DEF ServicesInv, Faithful, CallKnows, Knows
<1>3. CASE Move(w, "meta") /\ UNCHANGED <<windows, passed>>
  BY <1>1, <1>3, OnwardStep DEF quotaVars
<1>4. CASE /\ windows' = Bump(windows, t, "day")
           /\ \/ Finish(w) /\ UNCHANGED passed
              \/ /\ Move(w, "meta") /\ windows[t].day + 1 <= MaxDaily
                 /\ passed' = [passed EXCEPT ![t] = [minute |-> @.minute + 1, day |-> @.day + 1]]
  <2>1. windows \in Windows /\ passed \in Windows
    BY DEF ServicesInv, Counts, CounterShape, Windows
  <2>2. /\ windows' \in Windows /\ windows'[t].day = windows[t].day + 1
        /\ windows'[t].minute = windows[t].minute
        /\ \A u \in ServiceTenants \ {t} : windows'[u] = windows[u]
    BY <1>4, <2>1, BumpIs
  <2>3. /\ Faithful'
        /\ \A v \in Workers \ {w} : call'[v].at = call[v].at /\ call'[v].tenant = call[v].tenant
        /\ call'[w].at \in {"idle", "meta"}
    <3>1. CASE Finish(w)
      BY <1>1, <3>1, FinishFaithful, FinishIs DEF ServicesInv, Faithful, StoreShape
    <3>2. CASE Move(w, "meta")
      BY <1>1, <3>2, OnwardFaithful DEF ServicesInv
    <3>. QED BY <1>4, <3>1, <3>2
  <2>4. /\ passed' \in Windows /\ \A u \in ServiceTenants \ {t} : passed'[u] = passed[u]
        /\ \/ passed'[t] = passed[t]
           \/ /\ windows[t].day + 1 <= MaxDaily
              /\ passed'[t].minute = passed[t].minute + 1 /\ passed'[t].day = passed[t].day + 1
    <3>1. PICK p \in Nat, q \in Nat : p = passed[t].minute /\ q = passed[t].day
      BY <2>1 DEF Windows
    <3>2. CASE UNCHANGED passed
      BY <2>1, <3>2
    <3>3. CASE /\ windows[t].day + 1 <= MaxDaily
               /\ passed' = [passed EXCEPT ![t] = [minute |-> @.minute + 1, day |-> @.day + 1]]
      <4>1. passed' = [passed EXCEPT ![t] = [minute |-> p + 1, day |-> q + 1]]
        BY <2>1, <3>1, <3>3 DEF Windows
      <4>. QED BY <2>1, <3>1, <3>3, <4>1 DEF Windows
    <3>. QED BY <1>4, <3>2, <3>3
  <2>5. CounterShape'
    BY <1>1, <2>2, <2>4 DEF ServicesInv, Counts, CounterShape, Windows
  <2>6. KeysCounted'
    BY <1>1, <2>3, KeysKeep DEF ServicesInv, Counts
  <2>7. ASSUME NEW u \in ServiceTenants
        PROVE  /\ passed'[u].minute + Cardinality(Among({"day"}, u)') <= windows'[u].minute
               /\ passed'[u].minute + Cardinality(Among({"day"}, u)') <= MaxRequests
               /\ passed'[u].day <= windows'[u].day /\ passed'[u].day <= MaxDaily
               /\ windows'[u].minute + Cardinality(Among({"request"}, u)') <= calls
               /\ windows'[u].day + Cardinality(Among({"request", "day"}, u)') <= calls
    <3>1. PICK p \in Nat, q \in Nat : p = passed[u].minute /\ q = passed[u].day
      BY <2>1 DEF Windows
    <3>2. PICK m \in Nat, d \in Nat : m = windows[u].minute /\ d = windows[u].day
      BY <2>1 DEF Windows
    <3>3. windows'[u].day = (IF u = t THEN d + 1 ELSE d) /\ windows'[u].minute = m
      BY <2>2, <3>2
    <3>4. PICK n \in Nat : n = calls
      BY DEF ServicesInv, Counts, CounterShape
    <3>5. PICK x \in Nat, x1 \in Nat :
            x = Cardinality(Among({"day"}, u)) /\ x1 = Cardinality(Among({"day"}, u)')
      BY <2>3, Recount
    <3>6. PICK y \in Nat, y1 \in Nat :
            y = Cardinality(Among({"request"}, u)) /\ y1 = Cardinality(Among({"request"}, u)')
      BY <2>3, Recount
    <3>7. PICK z \in Nat, z1 \in Nat :
            z = Cardinality(Among({"request", "day"}, u)) /\ z1 = Cardinality(Among({"request", "day"}, u)')
      BY <2>3, Recount
    <3>8. /\ p + x <= m /\ p + x <= MaxRequests /\ q <= d /\ q <= MaxDaily
          /\ m + y <= n /\ d + z <= n
      BY <3>1, <3>2, <3>4, <3>5, <3>6, <3>7 DEF ServicesInv, Counts, RequestsCounted
    <3>9. x = (IF u = t THEN x1 + 1 ELSE x1) /\ z = (IF u = t THEN z1 + 1 ELSE z1)
      <4>1. \A A \in {{"day"}, {"request", "day"}} :
              (w \in Among(A, u) <=> u = t) /\ w \notin Among(A, u)'
        BY <1>1, <1>2, <2>3, InAmong
      <4>. QED BY <2>3, <3>5, <3>7, <4>1, Recount
    <3>10. y1 = y
      <4>1. w \notin Among({"request"}, u) /\ w \notin Among({"request"}, u)'
        BY <1>1, <2>3, InAmong
      <4>. QED BY <2>3, <3>6, <4>1, Recount
    <3>11. PICK p1 \in Nat, q1 \in Nat : /\ p1 = passed'[u].minute /\ q1 = passed'[u].day
                                        /\ \/ p1 = p /\ q1 = q
                                           \/ u = t /\ p1 = p + 1 /\ q1 = q + 1 /\ d + 1 <= MaxDaily
      BY <2>4, <3>1, <3>2
    <3>12. MaxRequests \in Nat /\ MaxDaily \in Nat
      BY ServicesAssumption
    <3>13. PICK d1 \in Nat : d1 = IF u = t THEN d + 1 ELSE d
      OBVIOUS
    <3>14. /\ p1 + x1 <= m /\ p1 + x1 <= MaxRequests /\ q1 <= d1 /\ q1 <= MaxDaily
           /\ m + y1 <= n /\ d1 + z1 <= n
      BY <3>8, <3>9, <3>10, <3>11, <3>12, <3>13
    <3>. QED BY <3>3, <3>4, <3>5, <3>6, <3>7, <3>11, <3>13, <3>14
  <2>8. RequestsCounted'
    BY <1>1, <2>7 DEF RequestsCounted
  <2>. QED BY <2>3, <2>5, <2>6, <2>8 DEF ServicesInv, Counts
<1>5. windows[t].day \in Nat /\ MaxDaily \in Nat
  BY ServicesAssumption DEF ServicesInv, Counts, CounterShape
<1>6. ~Exceeds(windows[t].day + 1, MaxDaily) => windows[t].day + 1 <= MaxDaily
  BY <1>5 DEF Exceeds
<1>. QED BY <1>2, <1>3, <1>4, <1>6 DEF record_day

\* The minute is over: nobody holds a place in its counter.
LEMMA PassesStep ==
    ASSUME ServicesInv, MinutePasses
    PROVE  ServicesInv'
<1>1. /\ \A w \in Workers : call[w].at # "day"
      /\ windows' = [t \in ServiceTenants |-> [windows[t] EXCEPT !.minute = 0]]
      /\ passed' = [t \in ServiceTenants |-> [passed[t] EXCEPT !.minute = 0]]
      /\ UNCHANGED <<vault, call, calls, envelopes, answers, counted, made, uncounted>>
  BY DEF MinutePasses, Reached
<1>2. Faithful'
  BY <1>1, FaithfulKeeps, SteadyWhenUnchanged DEF ServicesInv, Faithful, StoreShape
<1>3. windows \in Windows /\ passed \in Windows
  BY DEF ServicesInv, Counts, CounterShape, Windows
<1>4. ASSUME NEW t \in ServiceTenants
      PROVE  /\ windows'[t] \in [minute : Nat, day : Nat] /\ windows'[t].minute = 0
             /\ windows'[t].day = windows[t].day
             /\ passed'[t] \in [minute : Nat, day : Nat] /\ passed'[t].minute = 0
             /\ passed'[t].day = passed[t].day
  <2>1. PICK r \in [minute : Nat, day : Nat], s \in [minute : Nat, day : Nat] :
          r = windows[t] /\ s = passed[t]
    BY <1>3 DEF Windows
  <2>2. windows'[t] = [r EXCEPT !.minute = 0] /\ passed'[t] = [s EXCEPT !.minute = 0]
    BY <1>1, <2>1
  <2>. QED BY <2>1, <2>2
<1>5. windows' \in Windows /\ passed' \in Windows
  BY <1>1, <1>4 DEF Windows
<1>6. CounterShape' /\ KeysCounted'
  BY <1>1, <1>5 DEF ServicesInv, Counts, CounterShape, KeysCounted, KeysOf, Among, Windows
<1>7. ASSUME NEW t \in ServiceTenants
      PROVE  /\ passed'[t].minute + Cardinality(Among({"day"}, t)') <= windows'[t].minute
             /\ passed'[t].minute + Cardinality(Among({"day"}, t)') <= MaxRequests
             /\ passed'[t].day <= windows'[t].day /\ passed'[t].day <= MaxDaily
             /\ windows'[t].minute + Cardinality(Among({"request"}, t)') <= calls
             /\ windows'[t].day + Cardinality(Among({"request", "day"}, t)') <= calls
  <2>1. Among({"day"}, t)' = {} /\ Cardinality({}) = 0
    BY <1>1, FS_EmptySet DEF Among
  <2>2. \A A : Among(A, t)' = Among(A, t)
    BY <1>1 DEF Among
  <2>3. /\ windows[t].minute \in Nat /\ windows[t].day \in Nat /\ passed[t].day \in Nat
        /\ calls \in Nat
    BY <1>3 DEF ServicesInv, Counts, CounterShape, Windows
  <2>4. PICK y \in Nat, z \in Nat : /\ y = Cardinality(Among({"request"}, t))
                                   /\ z = Cardinality(Among({"request", "day"}, t))
    <3>1. PICK w \in Workers : TRUE
      BY ServicesAssumption
    <3>. QED BY <1>1, <3>1, Recount
  <2>5. /\ passed[t].day <= windows[t].day /\ passed[t].day <= MaxDaily
        /\ windows[t].minute + y <= calls /\ windows[t].day + z <= calls
    BY <2>4 DEF ServicesInv, Counts, RequestsCounted
  <2>6. MaxRequests \in Nat /\ y <= calls
    BY <2>3, <2>5, ServicesAssumption
  <2>7. /\ Cardinality(Among({"request"}, t)') = y /\ Cardinality(Among({"request", "day"}, t)') = z
        /\ Cardinality(Among({"day"}, t)') = 0
    BY <2>1, <2>2, <2>4
  <2>8. passed'[t].minute + 0 <= windows'[t].minute /\ passed'[t].minute + 0 <= MaxRequests
    BY <1>4, <2>6
  <2>9. windows'[t].minute + y <= calls
    BY <1>4, <2>3, <2>6
  <2>. QED BY <1>4, <2>5, <2>7, <2>8, <2>9
<1>8. RequestsCounted'
  BY <1>1, <1>7 DEF RequestsCounted
<1>. QED BY <1>2, <1>6, <1>8 DEF ServicesInv, Counts

-----------------------------------------------------------------------------
(* KeyServices: the theorem.                                               *)

\* The store with the keys it was loaded with, and every counter at its start.
LEMMA ServicesInitially == ServicesInit => ServicesInv
<1>. SUFFICES ASSUME ServicesInit PROVE ServicesInv
  OBVIOUS
<1>1. vault \in [DOMAIN vault -> AKey] /\ DOMAIN vault = DOMAIN Existing
      /\ \A k \in DOMAIN vault : vault[k].tenant = Existing[k]
  <2>1. PICK b \in BOOLEAN : b = TRUE
    OBVIOUS
  <2>2. vault = [k \in DOMAIN Existing |-> [tenant |-> Existing[k], version |-> 1, alive |-> b]]
    BY <2>1, Zenon DEF ServicesInit
  <2>3. 1 \in 1..MaxVersion /\ \A k \in DOMAIN Existing : Existing[k] \in ServiceTenants
    BY ServicesAssumption
  <2>. QED BY <2>2, <2>3 DEF AKey
<1>2. call = [w \in Workers |-> Idle] /\ call \in [Workers -> ACall]
  BY IdleIsACall DEF ServicesInit
<1>3. StoreShape
  BY <1>1, <1>2, ServicesAssumption DEF StoreShape, ServicesInit
<1>4. CallKnows /\ EnvelopeKnows /\ AnswerKnows
  BY <1>2, IdleIsACall
     DEF CallKnows, Knows, Looking, EnvelopeKnows, AnswerKnows, AnswersAskedVersion, ServicesInit
<1>5. ASSUME NEW t \in ServiceTenants
      PROVE  /\ Cardinality(KeysOf(t)) \in Nat
             /\ counted[t] = Cardinality(KeysOf(t))
  <2>1. KeysOf(t) = {k \in DOMAIN Existing : Existing[k] = t} /\ KeysOf(t) \subseteq ServiceKeys
    BY <1>1, ServicesAssumption DEF KeysOf
  <2>2. IsFiniteSet(KeysOf(t))
    BY <2>1, ServicesAssumption, FS_Subset
  <2>. QED BY <2>1, <2>2, FS_CardinalityType DEF ServicesInit
<1>6. counted \in [ServiceTenants -> Nat]
  BY <1>5 DEF ServicesInit
<1>7. CounterShape
  BY <1>6, ServicesAssumption DEF CounterShape, ServicesInit
<1>8. \A A, t : "idle" \notin A => Among(A, t) = {}
  BY <1>2, IdleIsACall DEF Among
<1>9. Cardinality({}) = 0
  BY FS_EmptySet
<1>10. ASSUME NEW t \in ServiceTenants
       PROVE  \A A \in {{"count"}, {"day"}, {"request"}, {"request", "day"}} : Cardinality(Among(A, t)) = 0
  BY <1>8, <1>9
<1>11. KeysCounted
  <2>1. made = counted /\ uncounted = [t \in ServiceTenants |-> 0]
    BY DEF ServicesInit
  <2>2. \A t \in ServiceTenants : counted[t] \in Nat /\ made[t] = counted[t] /\ uncounted[t] = 0
    BY <1>6, <2>1
  <2>3. \A t \in ServiceTenants : made[t] = counted[t] + Cardinality(Among({"count"}, t)) + uncounted[t]
    BY <1>10, <2>2
  <2>. QED BY <1>5, <2>2, <2>3 DEF KeysCounted
<1>12. RequestsCounted
  <2>1. /\ windows = [t \in ServiceTenants |-> [minute |-> 0, day |-> 0]] /\ calls = 0
        /\ passed = [t \in ServiceTenants |-> [minute |-> 0, day |-> 0]]
    BY DEF ServicesInit
  <2>2. \A t \in ServiceTenants : /\ windows[t].minute = 0 /\ windows[t].day = 0
                                   /\ passed[t].minute = 0 /\ passed[t].day = 0
    BY <2>1
  <2>3. MaxRequests \in Nat /\ MaxDaily \in Nat
    BY ServicesAssumption
  <2>. QED BY <1>10, <2>1, <2>2, <2>3 DEF RequestsCounted
<1>. QED BY <1>3, <1>4, <1>7, <1>11, <1>12 DEF ServicesInv, Faithful, Counts

\* Every step of the services keeps the invariant.
LEMMA ServicesInductive == ServicesInv /\ [ServicesNext]_serviceVars => ServicesInv'
<1>. SUFFICES ASSUME ServicesInv, [ServicesNext]_serviceVars PROVE ServicesInv'
  OBVIOUS
<1>1. CASE UNCHANGED serviceVars
  BY <1>1 DEF serviceVars, quotaVars, ServicesInv, Faithful, Counts, StoreShape, CounterShape, CallKnows,
              Knows, EnvelopeKnows, AnswerKnows, AnswersAskedVersion, KeysCounted, KeysOf, Among,
              RequestsCounted
<1>2. ASSUME NEW w \in Workers, NEW t \in ServiceTenants,
             \/ \E op \in CountedOps : Begin(w, op, t, "none", 0, NoEnvelope)
             \/ \E k \in DOMAIN vault :
                  \/ \E op \in OwnerOps \cup CryptoOps \cup {"envelope_encrypt"} :
                       Begin(w, op, t, k, 0, NoEnvelope)
                  \/ \E v \in 0..MaxVersion : Begin(w, "export_key", t, k, v, NoEnvelope)
             \/ \E e \in envelopes : Begin(w, "rewrap_dek", t, e.key, 0, e)
      PROVE  ServicesInv'
  <2>1. NoEnvelope \in Envelope
    BY DEF NoEnvelope, Envelope
  <2>2. ASSUME NEW op \in CountedOps, Begin(w, op, t, "none", 0, NoEnvelope)
        PROVE  ServicesInv'
    <3>1. op \in Ops /\ op # "export_key"
      BY DEF Ops, CountedOps
    <3>. QED BY <2>1, <2>2, <3>1, BeginStep
  <2>3. ASSUME NEW k \in DOMAIN vault, NEW op \in OwnerOps \cup CryptoOps \cup {"envelope_encrypt"},
               Begin(w, op, t, k, 0, NoEnvelope)
        PROVE  ServicesInv'
    <3>1. op \in Ops /\ op # "export_key" /\ op \notin CountedOps
      BY DEF Ops, CountedOps, OwnerOps, CryptoOps
    <3>. QED BY <2>1, <2>3, <3>1, BeginStep
  <2>4. ASSUME NEW k \in DOMAIN vault, NEW v \in 0..MaxVersion, Begin(w, "export_key", t, k, v, NoEnvelope)
        PROVE  ServicesInv'
    <3>1. "export_key" \in Ops /\ "export_key" \notin CountedOps /\ v \in Nat
      BY ServicesAssumption DEF Ops, CountedOps
    <3>. QED BY <2>1, <2>4, <3>1, BeginStep
  <2>5. ASSUME NEW e \in envelopes, Begin(w, "rewrap_dek", t, e.key, 0, e)
        PROVE  ServicesInv'
    <3>1. "rewrap_dek" \in Ops /\ "rewrap_dek" \notin CountedOps
      BY DEF Ops, CountedOps
    <3>2. e \in Envelope /\ e.key \in DOMAIN vault
      BY DEF ServicesInv, Faithful, StoreShape, EnvelopeKnows
    <3>3. PICK k \in DOMAIN vault : k = e.key
      BY <3>2
    <3>4. Begin(w, "rewrap_dek", t, k, 0, e)
      BY <2>5, <3>3
    <3>. QED BY <3>1, <3>2, <3>4, BeginStep
  <2>. QED BY <1>2, <2>2, <2>3, <2>4, <2>5
<1>3. ASSUME NEW w \in Workers,
             \/ can_create_key(w) \/ generate_key(w) \/ increment_key_count(w)
             \/ record_minute(w) \/ record_day(w)
      PROVE  ServicesInv'
  BY <1>3, CanCreateStep, GenerateStep, IncrementStep, MinuteStep, DayStep
<1>4. ASSUME NEW w \in Workers,
             \/ get_key_metadata(w) \/ rotate_key(w) \/ delete_key(w)
             \/ encrypt(w) \/ decrypt(w) \/ sign(w) \/ verify(w) \/ hmac(w) \/ hmac_verify(w)
             \/ export_key(w)
             \/ envelope_encrypt(w) \/ rewrap_old(w) \/ rewrap_new(w)
      PROVE  ServicesInv'
  BY <1>4, MetadataStep, RotateStep, DeleteStep, UseStep, ExportStep, EnvelopeStep, RewrapOldStep
<1>5. ASSUME NEW t \in ServiceTenants, CounterExpires(t) \/ grpc_import_key(t)
      PROVE  ServicesInv'
  BY <1>5, ExpiresStep, ImportStep
<1>6. CASE MinutePasses
  BY <1>6, PassesStep
<1>. QED BY <1>1, <1>2, <1>3, <1>4, <1>5, <1>6 DEF ServicesNext

\* The services keep their inductive invariant, for any number of tenants, keys,
\* workers and requests.
THEOREM ServicesInvariant == ServicesSpec => []ServicesInv
  BY ServicesInitially, ServicesInductive, PTL DEF ServicesSpec

\* The quota of keys may be overrun but never silently: every key made for a
\* tenant is in its counter, about to be counted, or one whose count an error,
\* the time to live or the path over gRPC lost; and no tenant gets more counted
\* requests through in a minute or a day than its quota has (quota.rs).
THEOREM QuotaIsAccounted == ServicesSpec => []QuotaHolds
<1>1. ASSUME ServicesInv PROVE QuotaHolds
  <2>1. ASSUME NEW t \in ServiceTenants
        PROVE  {counted[t], windows[t].minute, windows[t].day} \subseteq 0..(MaxCalls + Cardinality(ServiceKeys))
    <3>1. KeysOf(t) \subseteq ServiceKeys
      BY <1>1 DEF KeysOf, ServicesInv, Faithful, StoreShape
    <3>2. PICK s \in Nat : s = Cardinality(ServiceKeys) /\ Cardinality(KeysOf(t)) <= s
      BY <3>1, ServicesAssumption, FS_Subset, FS_CardinalityType
    <3>3. /\ counted[t] \in Nat /\ uncounted[t] \in Nat /\ made[t] \in Nat
          /\ windows[t].minute \in Nat /\ windows[t].day \in Nat /\ calls \in Nat /\ calls <= MaxCalls
      BY <1>1, ServicesAssumption DEF ServicesInv, Counts, CounterShape
    <3>4. \A A : Cardinality(Among(A, t)) \in Nat
      <4>. SUFFICES ASSUME NEW A PROVE Cardinality(Among(A, t)) \in Nat
        OBVIOUS
      <4>1. Among(A, t) \subseteq Workers
        BY DEF Among
      <4>. QED BY <4>1, ServicesAssumption, FS_Subset, FS_CardinalityType
    <3>5. made[t] = Cardinality(KeysOf(t))
          /\ made[t] = counted[t] + Cardinality(Among({"count"}, t)) + uncounted[t]
      BY <1>1 DEF ServicesInv, Counts, KeysCounted
    <3>6. /\ windows[t].minute + Cardinality(Among({"request"}, t)) <= calls
          /\ windows[t].day + Cardinality(Among({"request", "day"}, t)) <= calls
      BY <1>1 DEF ServicesInv, Counts, RequestsCounted
    <3>7. PICK m \in Nat : m = MaxCalls
      BY ServicesAssumption
    <3>8. counted[t] <= s
      BY <3>2, <3>3, <3>4, <3>5
    <3>9. windows[t].minute <= m /\ windows[t].day <= m
      <4>1. PICK a \in Nat, b \in Nat : /\ a = Cardinality(Among({"request"}, t))
                                       /\ b = Cardinality(Among({"request", "day"}, t))
        BY <3>4
      <4>. QED BY <3>3, <3>6, <3>7, <4>1
    <3>. QED BY <3>2, <3>3, <3>7, <3>8, <3>9
  <2>2. ServicesTypeOK
    <3>1. /\ DOMAIN vault \subseteq ServiceKeys
          /\ \A k \in DOMAIN vault : vault[k].version \in 1..MaxVersion
          /\ \A w \in Workers : call[w].at \in Steps
      BY <1>1 DEF ServicesInv, Faithful, StoreShape, AKey, ACall
    <3>2. \A e \in envelopes : {e.label, e.sealed} \subseteq 1..MaxVersion
      BY <1>1 DEF ServicesInv, Faithful, EnvelopeKnows
    <3>. QED BY <2>1, <3>1, <3>2 DEF ServicesTypeOK, Steps
  <2>3. QuotaAccounted
    <3>1. \A t \in ServiceTenants : Counting(t) = Among({"count"}, t)
      BY DEF Counting, Among, Reached
    <3>. QED BY <1>1, <3>1 DEF QuotaAccounted, ServicesInv, Counts, KeysCounted
  <2>4. WindowsHold
    <3>. SUFFICES ASSUME NEW t \in ServiceTenants
                  PROVE  passed[t].minute <= MaxRequests /\ passed[t].day <= MaxDaily
      BY DEF WindowsHold
    <3>1. Among({"day"}, t) \subseteq Workers
      BY DEF Among
    <3>2. PICK a \in Nat : a = Cardinality(Among({"day"}, t))
      BY <3>1, ServicesAssumption, FS_Subset, FS_CardinalityType
    <3>3. passed[t].minute \in Nat /\ MaxRequests \in Nat
      BY <1>1, ServicesAssumption DEF ServicesInv, Counts, CounterShape
    <3>4. passed[t].minute + a <= MaxRequests /\ passed[t].day <= MaxDaily
      BY <1>1, <3>2 DEF ServicesInv, Counts, RequestsCounted
    <3>. QED BY <3>2, <3>3, <3>4
  <2>. QED BY <2>2, <2>3, <2>4 DEF QuotaHolds
<1>. QED BY <1>1, ServicesInvariant, PTL

\* What a caller of the services gets is its own and what it asked for: computed
\* with a key of its tenant, under the version it named, in an envelope that
\* opens with the version written on it, unless a rotation came between the two
\* reads of its call.
THEOREM AnswersAreFaithful == ServicesSpec => []AnswersFaithful
<1>1. ASSUME ServicesInv PROVE AnswersFaithful
  <2>1. ServedOwner
    BY <1>1 DEF ServicesInv, Faithful, AnswerKnows, EnvelopeKnows, ServedOwner
  <2>2. EnvelopeOpens
    <3>. SUFFICES ASSUME NEW e \in envelopes, ~e.raced, vault[e.key].alive
                  PROVE  Opens(e, e.label)
      BY DEF EnvelopeOpens
    <3>1. /\ e.key \in DOMAIN vault /\ vault[e.key].tenant = e.tenant
          /\ e.label \in 1..MaxVersion /\ e.label = e.sealed
      BY <1>1 DEF ServicesInv, Faithful, EnvelopeKnows
    <3>2. e.label # 0
      BY <3>1, ServicesAssumption
    <3>. QED BY <3>1, <3>2 DEF Opens, Serves
  <2>3. AnswersAskedVersion
    BY <1>1 DEF ServicesInv, Faithful, AnswerKnows
  <2>. QED BY <2>1, <2>2, <2>3 DEF AnswersFaithful
<1>. QED BY <1>1, ServicesInvariant, PTL

\* The services count what they do and answer what they were asked.
THEOREM ServicesAreSound == ServicesSpec => []ServicesSound
  BY QuotaIsAccounted, AnswersAreFaithful, PTL DEF ServicesSound

-----------------------------------------------------------------------------
(* ApiKeys: the inductive invariant.                                       *)

KeyFields == {"id", "secret", "role", "tenant", "revoked", "expiry", "locked", "failed"}

\* A key with at most n failed attempts.
IsKey(k, n) ==
    /\ DOMAIN k = KeyFields
    /\ k.role \in Roles
    /\ k.expiry \in {"never", "set", "reached"}
    /\ k.revoked \in BOOLEAN /\ k.locked \in BOOLEAN
    /\ k.failed \in 0..n

\* The sequence of keys, as many as were declared or more.
CredsShape ==
    /\ creds \in Seq({creds[i] : i \in DOMAIN creds})
    /\ Len(Declared) <= Len(creds) /\ Len(creds) <= MaxCredentials
    /\ \A i \in DOMAIN creds : IsKey(creds[i], admin)
    /\ admin \in 0..MaxAdmin
    /\ \A r \in rotating : r.role \in Roles

\* A key that is to expire has its replacement, or a call that will add it.
Replaced ==
    \A i \in DOMAIN creds :
      /\ creds[i].expiry = "set" =>
           \/ \E r \in rotating : r.from = creds[i].id
           \/ WithId(RotatedId(creds[i].id)) # {}
      /\ creds[i].expiry = "reached" => WithId(RotatedId(creds[i].id)) # {}

\* Of the keys with a revoked id, the first is revoked.
FirstIsRevoked ==
    \A id \in revoked : \E i \in FirstOf(WithId(id)) : creds[i].revoked

CredsInv == CredsShape /\ Replaced /\ FirstIsRevoked

\* A set of positions that is not empty has a first one.
LEMMA FirstExists ==
    ASSUME NEW n \in Nat, NEW T \in SUBSET (1..n), T # {}
    PROVE  FirstOf(T) # {}
<1>1. PICK R : R = OpToRel(<, Nat)
  OBVIOUS
<1>2. IsWellFoundedOn(R, Nat)
  BY <1>1, NatLessThanWellFounded
<1>3. T \subseteq Nat
  OBVIOUS
<1>4. PICK x \in T : \A y \in T : <<y, x>> \notin R
  BY <1>2, <1>3, WFMin
<1>5. \A y, z \in Nat : y < z => <<y, z>> \in R
  BY <1>1 DEF OpToRel
<1>6. \A y \in T : ~(y < x)
  BY <1>3, <1>4, <1>5
<1>7. \A y \in T : x <= y
  BY <1>3, <1>6
<1>. QED BY <1>7 DEF FirstOf

\* A function on the first n numbers is a sequence.
LEMMA FunctionIsSeq ==
    ASSUME NEW n \in Nat, NEW S, NEW f \in [1..n -> S]
    PROVE  f \in Seq(S) /\ Len(f) = n
<1>1. f \in Seq(S)
  OBVIOUS
<1>. QED BY <1>1, LenProperties

\* One key of the sequence is replaced.
LEMMA ChangeShape ==
    ASSUME CredsShape, NEW i \in DOMAIN creds, NEW k, creds' = [creds EXCEPT ![i] = k]
    PROVE  /\ creds' \in Seq({creds'[j] : j \in DOMAIN creds'})
           /\ DOMAIN creds' = DOMAIN creds /\ Len(creds') = Len(creds)
           /\ \A j \in DOMAIN creds : creds'[j] = IF j = i THEN k ELSE creds[j]
<1>2. creds \in Seq({creds[j] : j \in DOMAIN creds})
  BY DEF CredsShape
<1>3. /\ Len(creds) \in Nat /\ DOMAIN creds = 1..Len(creds)
      /\ creds \in [1..Len(creds) -> {creds[j] : j \in DOMAIN creds}]
  BY <1>2, LenProperties
<1>4. /\ DOMAIN creds' = DOMAIN creds
      /\ \A j \in DOMAIN creds : creds'[j] = IF j = i THEN k ELSE creds[j]
  BY <1>3
<1>5. PICK n \in Nat : n = Len(creds)
  BY <1>3
<1>6. PICK f : f = creds'
  OBVIOUS
<1>7. PICK T : T = {f[j] : j \in DOMAIN f}
  OBVIOUS
<1>8. f \in [1..n -> T]
  BY <1>3, <1>4, <1>5, <1>6, <1>7
<1>9. f \in Seq(T) /\ Len(f) = n
  BY <1>8, FunctionIsSeq
<1>. QED BY <1>4, <1>5, <1>6, <1>7, <1>9

\* A key changes its state, not its id, and stays revoked; an expiry it is given
\* has its replacement under way, and one that is reached its replacement added.
LEMMA ChangeStep ==
    ASSUME CredsInv, NEW i \in DOMAIN creds, NEW k, creds' = [creds EXCEPT ![i] = k],
           IsKey(k, admin'), k.id = creds[i].id, creds[i].revoked => k.revoked,
           admin' \in Nat, admin <= admin', admin' <= MaxAdmin,
           rotating \subseteq rotating', \A r \in rotating' : r.role \in Roles,
           k.expiry = "set" => creds[i].expiry = "set" \/ \E r \in rotating' : r.from = k.id,
           k.expiry = "reached" =>
             \/ creds[i].expiry = "reached"
             \/ creds[i].expiry = "set" /\ ~\E r \in rotating : r.from = creds[i].id,
           \A id \in revoked' : id \in revoked \/ (i \in FirstOf(WithId(id)) /\ k.revoked)
    PROVE  CredsInv'
<1>1. /\ creds' \in Seq({creds'[j] : j \in DOMAIN creds'})
      /\ DOMAIN creds' = DOMAIN creds /\ Len(creds') = Len(creds)
      /\ \A j \in DOMAIN creds : creds'[j] = IF j = i THEN k ELSE creds[j]
  BY ChangeShape DEF CredsInv
<1>2. \A id : WithId(id)' = WithId(id)
  BY <1>1 DEF WithId
<1>3. ASSUME NEW j \in DOMAIN creds PROVE IsKey(creds'[j], admin')
  <2>1. CASE j = i
    BY <1>1, <2>1
  <2>2. CASE j # i
    <3>1. creds'[j] = creds[j] /\ IsKey(creds[j], admin) /\ admin \in Nat
      BY <1>1, <2>2 DEF CredsInv, CredsShape
    <3>. QED BY <3>1 DEF IsKey
  <2>. QED BY <2>1, <2>2
<1>4. CredsShape'
  <2>1. MaxAdmin \in Nat /\ admin' \in 0..MaxAdmin
    BY CredentialsAssumption
  <2>. QED BY <1>1, <1>3, <2>1 DEF CredsInv, CredsShape
<1>5. Replaced'
  BY <1>1, <1>2, ZenonT(60) DEF CredsInv, Replaced
<1>6. FirstIsRevoked'
  <2>. SUFFICES ASSUME NEW id \in revoked'
                PROVE  \E j \in FirstOf(WithId(id)) : creds'[j].revoked
    BY <1>2 DEF FirstIsRevoked, FirstOf
  <2>1. CASE id \in revoked
    <3>1. PICK j \in FirstOf(WithId(id)) : creds[j].revoked
      BY <2>1 DEF CredsInv, FirstIsRevoked
    <3>2. j \in DOMAIN creds
      BY <3>1 DEF FirstOf, WithId
    <3>. QED BY <1>1, <3>1, <3>2
  <2>2. CASE i \in FirstOf(WithId(id)) /\ k.revoked
    BY <1>1, <2>2
  <2>. QED BY <2>1, <2>2
<1>. QED BY <1>4, <1>5, <1>6 DEF CredsInv

\* A revocation marks the first key of the id.
LEMMA RevokeStep ==
    ASSUME CredsInv, NEW id, revoke_key(id)
    PROVE  CredsInv'
<1>1. PICK i \in FirstOf(WithId(id)) : Change(i, [creds[i] EXCEPT !.revoked = TRUE])
                                      /\ revoked' = revoked \cup {id}
  BY DEF revoke_key
<1>2. Administer /\ UNCHANGED rotating
  BY DEF revoke_key
<1>3. i \in DOMAIN creds /\ IsKey(creds[i], admin)
  BY <1>1 DEF FirstOf, WithId, CredsInv, CredsShape
<1>4. PICK b \in BOOLEAN : b = TRUE
  OBVIOUS
<1>5. PICK c : c = creds[i]
  OBVIOUS
<1>6. PICK k : k = [c EXCEPT !.revoked = b]
  OBVIOUS
<1>7. creds' = [creds EXCEPT ![i] = k]
  <2>1. k = [creds[i] EXCEPT !.revoked = TRUE]
    BY <1>4, <1>5, <1>6, Zenon
  <2>. QED BY <1>1, <2>1 DEF Change
<1>8. admin \in Nat /\ admin' \in Nat /\ admin <= admin' /\ admin' <= MaxAdmin
  BY <1>2, CredentialsAssumption DEF Administer, CredsInv, CredsShape
<1>9. /\ DOMAIN k = DOMAIN c /\ k.id = c.id /\ k.role = c.role /\ k.expiry = c.expiry
      /\ k.locked = c.locked /\ k.failed = c.failed /\ k.revoked = b
  BY <1>3, <1>5, <1>6 DEF IsKey, KeyFields
<1>10. k.revoked
  BY <1>4, <1>9
<1>11. IsKey(k, admin')
  BY <1>3, <1>5, <1>8, <1>9 DEF IsKey
<1>. QED BY <1>1, <1>2, <1>3, <1>5, <1>7, <1>8, <1>9, <1>10, <1>11, ChangeStep
  DEF CredsInv, CredsShape, Replaced

\* An administrative call counts as one.
LEMMA AdministerIs ==
    ASSUME CredsInv, Administer
    PROVE  /\ admin \in Nat /\ admin' = admin + 1
           /\ admin' \in Nat /\ admin <= admin' /\ admin' <= MaxAdmin
  BY CredentialsAssumption DEF Administer, CredsInv, CredsShape

\* A change of the lock and of the failed attempts only.
LEMMA LockStep ==
    ASSUME CredsInv, NEW i \in DOMAIN creds, NEW l \in BOOLEAN, NEW n \in 0..admin',
           creds' = [creds EXCEPT ![i] = [creds[i] EXCEPT !.failed = n, !.locked = l]],
           admin' \in Nat, admin <= admin', admin' <= MaxAdmin, UNCHANGED <<rotating, revoked>>
    PROVE  CredsInv'
<1>1. PICK c : c = creds[i]
  OBVIOUS
<1>2. IsKey(c, admin)
  BY <1>1 DEF CredsInv, CredsShape
<1>3. PICK k : k = [c EXCEPT !.failed = n, !.locked = l]
  OBVIOUS
<1>4. /\ DOMAIN k = DOMAIN c /\ k.id = c.id /\ k.role = c.role /\ k.expiry = c.expiry
      /\ k.revoked = c.revoked /\ k.locked = l /\ k.failed = n
  BY <1>2, <1>3 DEF IsKey, KeyFields
<1>5. IsKey(k, admin')
  BY <1>2, <1>4 DEF IsKey
<1>6. creds' = [creds EXCEPT ![i] = k]
  BY <1>1, <1>3
<1>7. \A r \in rotating' : r.role \in Roles
  BY DEF CredsInv, CredsShape
<1>. QED BY <1>1, <1>4, <1>5, <1>6, <1>7, ChangeStep

\* The same, of the lock alone.
LEMMA LockOnlyStep ==
    ASSUME CredsInv, NEW i \in DOMAIN creds, NEW l \in BOOLEAN, creds' = [creds EXCEPT ![i].locked = l],
           admin' \in Nat, admin <= admin', admin' <= MaxAdmin, UNCHANGED <<rotating, revoked>>
    PROVE  CredsInv'
<1>1. PICK c : c = creds[i]
  OBVIOUS
<1>2. IsKey(c, admin) /\ admin \in Nat
  BY <1>1 DEF CredsInv, CredsShape
<1>3. PICK k : k = [c EXCEPT !.locked = l]
  OBVIOUS
<1>4. /\ DOMAIN k = DOMAIN c /\ k.id = c.id /\ k.role = c.role /\ k.expiry = c.expiry
      /\ k.revoked = c.revoked /\ k.locked = l /\ k.failed = c.failed
  BY <1>2, <1>3 DEF IsKey, KeyFields
<1>5. IsKey(k, admin')
  BY <1>2, <1>4 DEF IsKey
<1>6. creds' = [creds EXCEPT ![i] = k]
  BY <1>1, <1>3
<1>7. \A r \in rotating' : r.role \in Roles
  BY DEF CredsInv, CredsShape
<1>. QED BY <1>1, <1>4, <1>5, <1>6, <1>7, ChangeStep

\* A key is locked by its id.
LEMMA LockKeyStep ==
    ASSUME CredsInv, NEW id, Administer, lock_key_by_id(id), UNCHANGED <<rotating, revoked>>
    PROVE  CredsInv'
<1>1. PICK i \in FirstOf(WithId(id)) : creds' = [creds EXCEPT ![i].locked = TRUE]
  BY DEF lock_key_by_id, Lock
<1>2. i \in DOMAIN creds
  BY <1>1 DEF FirstOf, WithId
<1>3. PICK b \in BOOLEAN : b = TRUE
  OBVIOUS
<1>4. creds' = [creds EXCEPT ![i].locked = b]
  BY <1>1, <1>3, Zenon
<1>. QED BY <1>2, <1>4, AdministerIs, LockOnlyStep

\* A lock lapses.
LEMMA LapseStep ==
    ASSUME CredsInv, NEW i \in DOMAIN creds, LockLapses(i), UNCHANGED <<rotating, admin, revoked>>
    PROVE  CredsInv'
<1>1. PICK b \in BOOLEAN : b = FALSE
  OBVIOUS
<1>2. creds' = [creds EXCEPT ![i].locked = b]
  BY <1>1, Zenon DEF LockLapses
<1>3. admin' \in Nat /\ admin <= admin' /\ admin' <= MaxAdmin
  BY CredentialsAssumption DEF CredsInv, CredsShape
<1>. QED BY <1>2, <1>3, LockOnlyStep

\* A failed attempt counts, and locks the key at the limit.
LEMMA FailedStep ==
    ASSUME CredsInv, NEW s, record_failed_attempt(s)
    PROVE  CredsInv'
<1>1. PICK i \in FirstOf(WithSecret(s)) :
        Change(i, [creds[i] EXCEPT !.failed = @ + 1, !.locked = @ \/ LocksAt(creds[i].failed + 1)])
  BY DEF record_failed_attempt
<1>2. i \in DOMAIN creds
  BY <1>1 DEF FirstOf, WithSecret
<1>3. PICK l \in BOOLEAN : l = (creds[i].locked \/ LocksAt(creds[i].failed + 1))
  OBVIOUS
<1>4. PICK n \in 0..admin' : n = creds[i].failed + 1
  <2>1. creds[i].failed \in 0..admin
    BY <1>2 DEF CredsInv, CredsShape, IsKey
  <2>. QED BY <2>1, AdministerIs DEF record_failed_attempt
<1>5. creds' = [creds EXCEPT ![i] = [creds[i] EXCEPT !.failed = n, !.locked = l]]
  BY <1>1, <1>3, <1>4, Zenon DEF Change
<1>. QED BY <1>2, <1>5, AdministerIs, LockStep DEF record_failed_attempt

\* A login clears the count and the lock.
LEMMA LoginStep ==
    ASSUME CredsInv, NEW s, record_successful_login(s)
    PROVE  CredsInv'
<1>1. PICK i \in FirstOf(WithSecret(s)) : Change(i, [creds[i] EXCEPT !.failed = 0, !.locked = FALSE])
  BY DEF record_successful_login
<1>2. i \in DOMAIN creds
  BY <1>1 DEF FirstOf, WithSecret
<1>3. PICK l \in BOOLEAN : l = FALSE
  OBVIOUS
<1>4. PICK n \in 0..admin' : n = 0
  BY AdministerIs DEF record_successful_login
<1>5. creds' = [creds EXCEPT ![i] = [creds[i] EXCEPT !.failed = n, !.locked = l]]
  BY <1>1, <1>3, <1>4, Zenon DEF Change
<1>. QED BY <1>2, <1>5, AdministerIs, LockStep DEF record_successful_login

\* The first half of a rotation gives the old key an expiry.
LEMMA ExpireStep ==
    ASSUME CredsInv, NEW id, NEW s, NEW role \in Roles, rotate_key_expire(id, s, role)
    PROVE  CredsInv'
<1>1. PICK i \in FirstOf(WithId(id)) : Change(i, Graceful(creds[i]))
  BY DEF rotate_key_expire
<1>2. i \in DOMAIN creds /\ creds[i].id = id
  BY <1>1 DEF FirstOf, WithId
<1>3. PICK c : c = creds[i]
  OBVIOUS
<1>4. IsKey(c, admin) /\ c.id = id
  BY <1>2, <1>3 DEF CredsInv, CredsShape
<1>5. PICK k : k = [c EXCEPT !.expiry = "set"]
  OBVIOUS
<1>6. /\ DOMAIN k = DOMAIN c /\ k.id = c.id /\ k.role = c.role /\ k.expiry = "set"
      /\ k.revoked = c.revoked /\ k.locked = c.locked /\ k.failed = c.failed
  BY <1>4, <1>5 DEF IsKey, KeyFields
<1>7. admin \in Nat /\ admin' \in Nat /\ admin <= admin' /\ admin' <= MaxAdmin
  BY AdministerIs DEF rotate_key_expire
<1>8. IsKey(k, admin')
  BY <1>4, <1>6, <1>7 DEF IsKey
<1>9. creds' = [creds EXCEPT ![i] = k]
  BY <1>1, <1>3, <1>5 DEF Change, Graceful
<1>10. PICK r : r = [from |-> id, secret |-> s, role |-> role]
  OBVIOUS
<1>11. r.from = id /\ r.role \in Roles
  BY <1>10
<1>12. rotating' = rotating \cup {r} /\ UNCHANGED revoked
  BY <1>10 DEF rotate_key_expire
<1>13. \A q \in rotating' : q.role \in Roles
  BY <1>11, <1>12 DEF CredsInv, CredsShape
<1>14. \E q \in rotating' : q.from = k.id
  BY <1>4, <1>6, <1>11, <1>12
<1>. QED BY <1>2, <1>3, <1>6, <1>7, <1>8, <1>9, <1>12, <1>13, <1>14, ChangeStep

\* An expiry is reached once the rotation that set it is over.
LEMMA ExpiryStep ==
    ASSUME CredsInv, NEW i \in DOMAIN creds, ExpiryReached(i), UNCHANGED <<rotating, admin, revoked>>
    PROVE  CredsInv'
<1>1. PICK c : c = creds[i]
  OBVIOUS
<1>2. IsKey(c, admin) /\ c.expiry = "set" /\ ~\E r \in rotating : r.from = c.id
  BY <1>1 DEF CredsInv, CredsShape, ExpiryReached
<1>3. PICK k : k = [c EXCEPT !.expiry = "reached"]
  OBVIOUS
<1>4. /\ DOMAIN k = DOMAIN c /\ k.id = c.id /\ k.role = c.role /\ k.expiry = "reached"
      /\ k.revoked = c.revoked /\ k.locked = c.locked /\ k.failed = c.failed
  BY <1>2, <1>3 DEF IsKey, KeyFields
<1>5. admin' \in Nat /\ admin <= admin' /\ admin' <= MaxAdmin
  BY CredentialsAssumption DEF CredsInv, CredsShape
<1>6. IsKey(k, admin')
  BY <1>2, <1>4, <1>5 DEF IsKey
<1>7. creds' = [creds EXCEPT ![i] = k]
  BY <1>1, <1>3 DEF ExpiryReached
<1>8. \A r \in rotating' : r.role \in Roles
  BY DEF CredsInv, CredsShape
<1>. QED BY <1>1, <1>2, <1>4, <1>5, <1>6, <1>7, <1>8, ChangeStep

\* The second half adds the key that replaces it.
LEMMA AddStep ==
    ASSUME CredsInv, NEW r \in rotating, rotate_key_add(r)
    PROVE  CredsInv'
<1>. DEFINE n == Len(creds)
<1>1. PICK e : e = NewKey(RotatedId(r.from), r.secret, r.role, Unbound)
  OBVIOUS
<1>2. r.role \in Roles /\ admin \in Nat /\ admin <= MaxAdmin
  BY CredentialsAssumption DEF CredsInv, CredsShape
<1>3. IsKey(e, admin)
  <2>1. DOMAIN e = KeyFields /\ e.role = r.role /\ e.expiry = "never" /\ e.failed = 0
    BY <1>1 DEF NewKey, KeyFields
  <2>2. e.revoked \in BOOLEAN /\ e.locked \in BOOLEAN
    BY <1>1 DEF NewKey
  <2>. QED BY <1>2, <2>1, <2>2 DEF IsKey
<1>4. e.id = RotatedId(r.from) /\ e.expiry = "never"
  BY <1>1 DEF NewKey
<1>5. creds \in Seq({creds[j] : j \in DOMAIN creds}) /\ n \in Nat /\ DOMAIN creds = 1..n
  BY LenProperties DEF CredsInv, CredsShape
<1>6. /\ DOMAIN creds' = 1..(n + 1) /\ Len(creds') = n + 1 /\ creds'[n + 1] = e
      /\ \A j \in 1..n : creds'[j] = creds[j]
      /\ creds' \in Seq({creds[j] : j \in DOMAIN creds} \cup {e})
  <2>1. PICK S : S = {creds[j] : j \in DOMAIN creds} \cup {e}
    OBVIOUS
  <2>2. creds \in Seq(S) /\ e \in S
    BY <1>5, <2>1
  <2>3. creds' = Append(creds, e)
    BY <1>1 DEF rotate_key_add
  <2>. QED BY <1>5, <2>1, <2>2, <2>3, AppendProperties, LenProperties
<1>7. creds' \in Seq({creds'[j] : j \in DOMAIN creds'})
  <2>1. PICK S : S = {creds[j] : j \in DOMAIN creds} \cup {e}
    OBVIOUS
  <2>2. PICK f : f = creds'
    OBVIOUS
  <2>3. PICK T : T = {f[j] : j \in DOMAIN f}
    OBVIOUS
  <2>4. PICK m \in Nat : m = n + 1
    BY <1>5
  <2>5. f \in Seq(S) /\ DOMAIN f = 1..m
    BY <1>6, <2>1, <2>2, <2>4
  <2>6. f \in [1..m -> T]
    BY <2>3, <2>5, LenProperties
  <2>. QED BY <2>2, <2>3, <2>6, FunctionIsSeq
<1>8. CredsShape'
  <2>1. n + 1 <= MaxCredentials /\ Len(Declared) <= n + 1
    BY <1>5, CredentialsAssumption, DeclaredAssumption DEF rotate_key_add, CredsInv, CredsShape
  <2>2. \A j \in DOMAIN creds' : IsKey(creds'[j], admin)
    <3>1. \A j \in DOMAIN creds : IsKey(creds[j], admin)
      BY DEF CredsInv, CredsShape
    <3>2. \A j \in 1..(n + 1) : j = n + 1 \/ j \in 1..n
      BY <1>5
    <3>. QED BY <1>3, <1>5, <1>6, <3>1, <3>2
  <2>3. /\ admin' = admin /\ admin \in 0..MaxAdmin
        /\ \A q \in rotating' : q.role \in Roles
    BY DEF rotate_key_add, CredsInv, CredsShape
  <2>. QED BY <1>6, <1>7, <2>1, <2>2, <2>3 DEF CredsShape
<1>9. \A id : /\ WithId(id) \subseteq 1..n /\ WithId(id) \subseteq WithId(id)'
              /\ WithId(id)' \subseteq WithId(id) \cup {n + 1}
  <2>1. \A j \in 1..(n + 1) : j = n + 1 \/ j \in 1..n
    BY <1>5
  <2>2. \A j \in 1..n : j \in 1..(n + 1)
    BY <1>5
  <2>. QED BY <1>5, <1>6, <2>1, <2>2 DEF WithId
<1>10. n + 1 \in WithId(RotatedId(r.from))'
  BY <1>4, <1>5, <1>6 DEF WithId
<1>11. Replaced'
  <2>. SUFFICES ASSUME NEW j \in 1..(n + 1), NEW id, id = creds'[j].id
                PROVE  /\ creds'[j].expiry = "set" =>
                            \/ \E q \in rotating' : q.from = id
                            \/ WithId(RotatedId(id))' # {}
                       /\ creds'[j].expiry = "reached" => WithId(RotatedId(id))' # {}
    BY <1>6 DEF Replaced, WithId
  <2>1. CASE j = n + 1
    BY <1>4, <1>6, <2>1
  <2>2. CASE j # n + 1
    <3>1. j \in 1..n /\ j \in DOMAIN creds /\ creds'[j] = creds[j]
      BY <1>5, <1>6, <2>2
    <3>2. id = creds[j].id
      BY <3>1
    <3>3. /\ creds[j].expiry = "set" =>
               \/ \E q \in rotating : q.from = id
               \/ WithId(RotatedId(id)) # {}
          /\ creds[j].expiry = "reached" => WithId(RotatedId(id)) # {}
      BY <3>1, <3>2 DEF CredsInv, Replaced
    <3>4. \A q \in rotating : q \in rotating' \/ q = r
      BY DEF rotate_key_add
    <3>5. WithId(RotatedId(id)) # {} => WithId(RotatedId(id))' # {}
      BY <1>9
    <3>. QED BY <1>10, <3>1, <3>2, <3>3, <3>4, <3>5
  <2>. QED BY <2>1, <2>2
<1>12. FirstIsRevoked'
  <2>. SUFFICES ASSUME NEW id \in revoked
                PROVE  \E j \in FirstOf(WithId(id)') : creds'[j].revoked
    BY DEF FirstIsRevoked, FirstOf, rotate_key_add
  <2>1. PICK j \in FirstOf(WithId(id)) : creds[j].revoked
    BY DEF CredsInv, FirstIsRevoked
  <2>2. j \in WithId(id) /\ j \in 1..n /\ \A q \in WithId(id) : j <= q
    BY <1>9, <2>1 DEF FirstOf
  <2>3. j \in WithId(id)'
    BY <1>9, <2>2
  <2>4. \A q \in WithId(id)' : j <= q
    <3>1. j <= n + 1
      BY <1>5, <2>2
    <3>. QED BY <1>9, <2>2, <3>1
  <2>5. j \in FirstOf(WithId(id)')
    BY <2>3, <2>4 DEF FirstOf
  <2>. QED BY <1>6, <2>1, <2>2, <2>5
<1>. QED BY <1>8, <1>11, <1>12 DEF CredsInv

\* The keys the server declares at start-up.
LEMMA CredsInitially ==
    ASSUME CredsInit
    PROVE  CredsInv
<1>. DEFINE n == Len(Declared)
<1>1. n \in Nat /\ DOMAIN Declared = 1..n /\ n <= MaxCredentials
  BY DeclaredAssumption, LenProperties
<1>2. PICK f : f = creds
  OBVIOUS
<1>3. PICK T : T = {f[i] : i \in DOMAIN f}
  OBVIOUS
<1>4. DOMAIN creds = 1..n /\ creds \in [1..n -> T]
  BY <1>1, <1>2, <1>3 DEF CredsInit
<1>5. creds \in Seq(T) /\ Len(creds) = n
  BY <1>1, <1>4, FunctionIsSeq
<1>6. ASSUME NEW i \in 1..n
      PROVE  IsKey(creds[i], 0) /\ creds[i].expiry = "never"
  <2>1. PICK d : d = Declared[i]
    OBVIOUS
  <2>2. d.role \in Roles
    <3>1. PICK Text : Text = STRING
      OBVIOUS
    <3>2. PICK R : R = Roles
      OBVIOUS
    <3>3. Declared \in Seq([id : Text, secret : Text, role : R, tenant : Text])
      BY <3>1, <3>2, DeclaredAssumption, Zenon
    <3>4. d \in [id : Text, secret : Text, role : R, tenant : Text]
      <4>1. PICK S : S = [id : Text, secret : Text, role : R, tenant : Text]
        OBVIOUS
      <4>2. Declared \in Seq(S)
        BY <3>3, <4>1
      <4>. QED BY <1>1, <2>1, <4>1, <4>2, ElementOfSeq
    <3>. QED BY <3>2, <3>4
  <2>3. PICK e : e = NewKey(d.id, d.secret, d.role, d.tenant)
    OBVIOUS
  <2>4. creds[i] = e
    BY <1>1, <2>1, <2>3 DEF CredsInit
  <2>5. DOMAIN e = KeyFields /\ e.role = d.role /\ e.expiry = "never" /\ e.failed = 0
    BY <2>3 DEF NewKey, KeyFields
  <2>6. e.revoked \in BOOLEAN /\ e.locked \in BOOLEAN
    BY <2>3 DEF NewKey
  <2>. QED BY <2>2, <2>4, <2>5, <2>6 DEF IsKey
<1>7. admin = 0 /\ rotating = {} /\ revoked = {}
  BY DEF CredsInit
<1>8. CredsShape
  <2>1. admin \in 0..MaxAdmin
    BY <1>7, CredentialsAssumption
  <2>2. n <= Len(creds) /\ Len(creds) <= MaxCredentials
    BY <1>1, <1>5
  <2>. QED BY <1>2, <1>3, <1>4, <1>5, <1>6, <1>7, <2>1, <2>2 DEF CredsShape
<1>9. Replaced
  BY <1>4, <1>6 DEF Replaced
<1>10. FirstIsRevoked
  BY <1>7 DEF FirstIsRevoked
<1>. QED BY <1>8, <1>9, <1>10 DEF CredsInv

\* Every operation of ApiKeyConfig, and the passage of time, preserves it.
LEMMA CredsInductive ==
    ASSUME CredsInv, [CredsNext]_credVars
    PROVE  CredsInv'
<1>1. CASE UNCHANGED credVars
  BY <1>1 DEF credVars, CredsInv, CredsShape, Replaced, FirstIsRevoked, FirstOf, WithId
<1>2. ASSUME NEW id \in Known, NEW s \in FreshSecrets, NEW i \in WithId(id),
             rotate_key_expire(id, s, creds[i].role)
      PROVE  CredsInv'
  <2>1. creds[i].role \in Roles
    BY DEF CredsInv, CredsShape, IsKey, WithId
  <2>2. PICK role \in Roles : role = creds[i].role
    BY <2>1
  <2>. QED BY <1>2, <2>2, ExpireStep
<1>3. CASE CredsNext
  BY <1>2, <1>3, RevokeStep, LockKeyStep, AddStep, FailedStep, LoginStep, ExpiryStep, LapseStep
  DEF CredsNext
<1>. QED BY <1>1, <1>3

\* ApiKeyConfig keeps its inductive invariant, whatever the declared keys, the
\* rotations and the administrative calls.
THEOREM CredsInvariant == CredsSpec => []CredsInv
<1>1. CredsInit => CredsInv
  BY CredsInitially
<1>2. CredsInv /\ [CredsNext]_credVars => CredsInv'
  BY CredsInductive
<1>. QED BY <1>1, <1>2, PTL DEF CredsSpec

\* A usable key is found by its secret: validate answers with it or with the
\* one before it in the sequence.
LEMMA UsableIsFound ==
    ASSUME CredsShape, NEW i \in DOMAIN creds, Usable(creds[i])
    PROVE  validate(creds[i].secret) # {}
<1>1. PICK n \in Nat : DOMAIN creds = 1..n
  BY LenProperties DEF CredsShape
<1>2. PICK T : T = {j \in WithSecret(creds[i].secret) : Usable(creds[j])}
  OBVIOUS
<1>3. T \in SUBSET (1..n) /\ i \in T
  BY <1>1, <1>2 DEF WithSecret
<1>4. FirstOf(T) # {}
  BY <1>3, FirstExists
<1>. QED BY <1>2, <1>4 DEF validate

\* The only key with a revoked id is revoked, and validate passes it by.
LEMMA RevokedIsPassedBy ==
    ASSUME CredsInv
    PROVE  RevokedIsDead
<1>. SUFFICES ASSUME NEW id \in revoked, Cardinality(WithId(id)) = 1,
                     NEW i \in WithId(id), NEW k \in validate(creds[i].secret), k.id = id
              PROVE  FALSE
  BY DEF RevokedIsDead
<1>1. PICK n \in Nat : DOMAIN creds = 1..n
  BY LenProperties DEF CredsInv, CredsShape
<1>2. IsFiniteSet(WithId(id))
  <2>1. IsFiniteSet(1..n)
    BY FS_Interval
  <2>. QED BY <1>1, <2>1, FS_Subset DEF WithId
<1>3. PICK x : WithId(id) = {x}
  BY <1>2, FS_Singleton
<1>4. creds[x].revoked
  BY <1>3 DEF CredsInv, FirstIsRevoked, FirstOf
<1>5. PICK j \in DOMAIN creds : k = creds[j] /\ Usable(creds[j])
  BY DEF validate, FirstOf, WithSecret
<1>6. j = x
  BY <1>3, <1>5 DEF WithId
<1>. QED BY <1>4, <1>5, <1>6 DEF Usable, is_valid

\* ApiKeyConfig, for any keys declared and any number of rotations and
\* revocations: rotate_key leaves its client a key that authenticates through
\* the grace period and after it, and a revoked id authenticates nobody while
\* one key bears it.
THEOREM CredentialsAreSound == CredsSpec => []CredentialsSound
<1>1. CredsInv => CredsTypeOK
  <2>. SUFFICES ASSUME CredsInv PROVE CredsTypeOK
    OBVIOUS
  <2>1. admin \in Nat /\ admin <= MaxAdmin /\ MaxAdmin \in Nat
    BY CredentialsAssumption DEF CredsInv, CredsShape
  <2>2. ASSUME NEW i \in DOMAIN creds
        PROVE  /\ creds[i].role \in Roles
               /\ creds[i].expiry \in {"never", "set", "reached"}
               /\ {creds[i].revoked, creds[i].locked} \subseteq BOOLEAN
               /\ creds[i].failed \in 0..MaxAdmin
    <3>1. IsKey(creds[i], admin)
      BY DEF CredsInv, CredsShape
    <3>2. creds[i].failed \in 0..MaxAdmin
      BY <2>1, <3>1 DEF IsKey
    <3>3. {creds[i].revoked, creds[i].locked} \subseteq BOOLEAN
      BY <3>1, Zenon DEF IsKey
    <3>. QED BY <3>1, <3>2, <3>3 DEF IsKey
  <2>3. Len(creds) \in Len(Declared)..MaxCredentials
    <3>1. Len(creds) \in Nat /\ Len(Declared) \in Nat /\ MaxCredentials \in Nat
      BY CredentialsAssumption, DeclaredAssumption, LenProperties DEF CredsInv, CredsShape
    <3>. QED BY <3>1 DEF CredsInv, CredsShape
  <2>4. admin \in 0..MaxAdmin
    BY DEF CredsInv, CredsShape
  <2>. QED BY <2>2, <2>3, <2>4 DEF CredsTypeOK
<1>2. CredsInv => RotationOverlaps
  <2>. SUFFICES ASSUME CredsInv, NEW i \in DOMAIN creds
                PROVE  /\ creds[i].expiry = "set" /\ ~creds[i].revoked /\ ~creds[i].locked
                            => validate(creds[i].secret) # {}
                       /\ creds[i].expiry = "reached" => WithId(RotatedId(creds[i].id)) # {}
    BY DEF RotationOverlaps
  <2>1. ASSUME creds[i].expiry = "set", ~creds[i].revoked, ~creds[i].locked
        PROVE  validate(creds[i].secret) # {}
    <3>1. Usable(creds[i])
      BY <2>1 DEF Usable, is_valid
    <3>. QED BY <3>1, UsableIsFound DEF CredsInv
  <2>2. creds[i].expiry = "reached" => WithId(RotatedId(creds[i].id)) # {}
    BY DEF CredsInv, Replaced
  <2>. QED BY <2>1, <2>2
<1>3. CredsInv => CredentialsSound
  BY <1>1, <1>2, RevokedIsPassedBy DEF CredentialsSound
<1>. QED BY <1>3, CredsInvariant, PTL

-----------------------------------------------------------------------------
(* RotationScheduler: the inductive invariant.                             *)

APlan == [at : {"idle", "count", "rotate"}, age : Nat, version : Nat,
          raced : BOOLEAN, wasDue : BOOLEAN]
AnAge == [version : Nat, age : Nat, ops : Nat, alive : BOOLEAN]

SchedulerShape ==
    /\ policy \in RotationPolicies
    /\ key \in AnAge
    /\ plan \in [Schedulers -> APlan]
    /\ today \in Nat /\ key.age <= today
    /\ automatic \in Nat

\* What a call read is of the version the key is at, unless a rotation marked
\* the call, and a verdict was true of the key while the call ran.
PlanKnows(s) ==
    /\ plan[s].at # "idle" /\ ~plan[s].raced => plan[s].age <= key.age /\ plan[s].version = key.version
    /\ plan[s].at = "rotate" /\ ~plan[s].raced => plan[s].wasDue
    /\ plan[s].at = "rotate" /\ policy.kind = "time" => plan[s].age > policy.days
PlansKnow == \A s \in Schedulers : PlanKnows(s)

\* The calls that found the key old: before the last rotation, and since.
FoundOld == {s \in Schedulers : plan[s].at # "idle" /\ plan[s].age > policy.days}
OldBefore == {s \in FoundOld : plan[s].raced}
OldSince == {s \in FoundOld : ~plan[s].raced}

\* Every rotation so far, and every one that a check from before the last
\* rotation still leads to, was paid for by a period that had passed by then:
\* a period pays for as many as there are schedulers.
LastRotated == today - key.age
Paid ==
    policy.kind = "time" =>
      automatic + Cardinality(OldBefore)
        <= Cardinality(Schedulers) * (LastRotated \div (policy.days + 1))

SchedulerInv == SchedulerShape /\ ~early /\ PlansKnow /\ Paid

\* Periods that have passed by a day: one more once a period has gone by.
LEMMA Periods ==
    ASSUME NEW d \in Nat, d > 0, NEW a \in Nat, NEW b \in Nat, a <= b
    PROVE  /\ a \div d \in Nat /\ b \div d \in Nat /\ a \div d <= b \div d
           /\ a + d <= b => (a \div d) + 1 <= b \div d
<1>1. PICK p \in Int, q \in Int : p = a \div d /\ q = b \div d
  OBVIOUS
<1>2. d * p <= a /\ a < d * (p + 1) /\ d * q <= b /\ b < d * (q + 1)
  BY <1>1
<1>3. p \in Nat /\ q \in Nat
  BY <1>1, <1>2
<1>4. p <= q
  BY <1>2
<1>5. a + d <= b => p + 1 <= q
  BY <1>2
<1>. QED BY <1>1, <1>3, <1>4, <1>5

\* What the periods pay for.
LEMMA Pays ==
    ASSUME NEW n \in Nat, NEW x \in Nat, NEW y \in Nat
    PROVE  /\ x <= y => n * x <= n * y
           /\ x + 1 <= y => n * x + n <= n * y
           /\ n * x \in Nat /\ n * y \in Nat
  OBVIOUS

\* The calls that found the key old are finitely many, no more than schedulers.
LEMMA OldAreFew ==
    ASSUME SchedulerShape
    PROVE  /\ IsFiniteSet(OldBefore) /\ IsFiniteSet(OldSince) /\ OldBefore \cup OldSince = FoundOld
           /\ Cardinality(OldBefore) \in Nat /\ Cardinality(OldSince) \in Nat
           /\ Cardinality(Schedulers) \in Nat /\ Cardinality(OldSince) <= Cardinality(Schedulers)
           /\ IsFiniteSet(FoundOld)
           /\ Cardinality(FoundOld) \in Nat
           /\ Cardinality(FoundOld) <= Cardinality(OldBefore) + Cardinality(OldSince)
<1>1. IsFiniteSet(Schedulers) /\ Cardinality(Schedulers) \in Nat
  BY SchedulerAssumption, FS_CardinalityType
<1>2. OldBefore \subseteq Schedulers /\ OldSince \subseteq Schedulers /\ OldBefore \cup OldSince = FoundOld
  BY DEF OldBefore, OldSince, FoundOld
<1>3. IsFiniteSet(OldBefore) /\ IsFiniteSet(OldSince) /\ Cardinality(OldSince) <= Cardinality(Schedulers)
  BY <1>1, <1>2, FS_Subset
<1>4. Cardinality(OldBefore) \in Nat /\ Cardinality(OldSince) \in Nat
  BY <1>3, FS_CardinalityType
<1>5. OldBefore \cap OldSince = {}
  BY DEF OldBefore, OldSince
<1>6. /\ IsFiniteSet(FoundOld)
      /\ Cardinality(FoundOld) = Cardinality(OldBefore) + Cardinality(OldSince) - Cardinality(OldBefore \cap OldSince)
  BY <1>2, <1>3, FS_Union
<1>7. Cardinality(OldBefore \cap OldSince) = 0
  BY <1>5, FS_EmptySet
<1>. QED BY <1>1, <1>2, <1>3, <1>4, <1>6, <1>7

\* The last rotation was on some day up to today.
LEMMA LastRotatedIs ==
    ASSUME SchedulerShape
    PROVE  LastRotated \in Nat /\ LastRotated <= today /\ policy.days + 1 \in Nat /\ policy.days + 1 > 0
<1>1. policy.days \in Nat /\ today \in Nat /\ key.age \in Nat /\ key.age <= today
  BY SchedulerAssumption DEF SchedulerShape, AnAge
<1>. QED BY <1>1 DEF LastRotated

\* Without a rotation nothing more has to be paid for.
LEMMA PaidKeeps ==
    ASSUME SchedulerShape, Paid, SchedulerShape', policy' = policy, automatic' = automatic,
           LastRotated' = LastRotated, OldBefore' \subseteq OldBefore
    PROVE  Paid'
<1>. SUFFICES ASSUME policy.kind = "time"
              PROVE  automatic + Cardinality(OldBefore')
                       <= Cardinality(Schedulers) * (LastRotated \div (policy.days + 1))
  BY DEF Paid
<1>1. PICK most : most = Cardinality(Schedulers) * (LastRotated \div (policy.days + 1))
  OBVIOUS
<1>2. most \in Nat
  <2>1. PICK n \in Nat : n = Cardinality(Schedulers)
    BY OldAreFew
  <2>2. PICK d \in Nat, l \in Nat : d = policy.days + 1 /\ d > 0 /\ l = LastRotated
    BY LastRotatedIs
  <2>3. PICK x \in Nat : x = l \div d
    BY <2>2, Periods
  <2>. QED BY <1>1, <2>1, <2>2, <2>3, Pays
<1>3. automatic \in Nat /\ automatic + Cardinality(OldBefore) <= most
  BY <1>1 DEF Paid, SchedulerShape
<1>4. PICK O, O1 : O = OldBefore /\ O1 = OldBefore'
  OBVIOUS
<1>5. IsFiniteSet(O) /\ Cardinality(O) \in Nat
  BY <1>4, OldAreFew
<1>6. Cardinality(O1) <= Cardinality(O) /\ Cardinality(O1) \in Nat
  BY <1>4, <1>5, FS_Subset, FS_CardinalityType
<1>. QED BY <1>1, <1>2, <1>3, <1>4, <1>5, <1>6

\* A rotation, of a scheduler or not, leaves as many calls to pay for as had
\* found the key old, and the period that made it old pays for those that did so
\* since the rotation before.
LEMMA PaidRotates ==
    ASSUME SchedulerInv, SchedulerShape', policy' = policy, today' = today, key'.age = 0,
           OldBefore' \subseteq FoundOld,
           \/ automatic' = automatic
           \/ automatic' = automatic + 1 /\ \E s \in FoundOld : s \notin OldBefore'
    PROVE  Paid'
<1>. SUFFICES ASSUME policy.kind = "time"
              PROVE  automatic' + Cardinality(OldBefore')
                       <= Cardinality(Schedulers) * (LastRotated' \div (policy.days + 1))
  BY DEF Paid
<1>1. PICK n \in Nat : n = Cardinality(Schedulers)
  BY OldAreFew DEF SchedulerInv
<1>2. PICK d \in Nat, l \in Nat : d = policy.days + 1 /\ d > 0 /\ l = LastRotated
  BY LastRotatedIs DEF SchedulerInv
<1>3. PICK l1 \in Nat : l1 = LastRotated' /\ l1 = today
  BY DEF LastRotated, SchedulerShape
<1>4. l <= l1
  BY <1>2, <1>3, LastRotatedIs DEF SchedulerInv
<1>5. PICK x \in Nat, x1 \in Nat : x = l \div d /\ x1 = l1 \div d
  BY <1>2, <1>4, Periods
<1>6. x <= x1 /\ (l + d <= l1 => x + 1 <= x1)
  BY <1>2, <1>4, <1>5, Periods
<1>7. PICK a \in Nat, a1 \in Nat : a = automatic /\ a1 = automatic'
  BY DEF SchedulerInv, SchedulerShape
<1>8. PICK O1, F : O1 = OldBefore' /\ F = FoundOld
  OBVIOUS
<1>9. PICK o \in Nat, f \in Nat, h \in Nat :
        o = Cardinality(OldBefore) /\ f = Cardinality(OldSince) /\ h = Cardinality(F)
  BY <1>8, OldAreFew DEF SchedulerInv
<1>10. IsFiniteSet(F) /\ h <= o + f /\ f <= n
  BY <1>1, <1>8, <1>9, OldAreFew DEF SchedulerInv
<1>11. PICK o1 \in Nat : o1 = Cardinality(O1) /\ a1 + o1 <= a + h
  <2>1. IsFiniteSet(O1) /\ Cardinality(O1) \in Nat /\ Cardinality(O1) <= h
    BY <1>8, <1>9, <1>10, FS_Subset, FS_CardinalityType
  <2>2. CASE automatic' = automatic
    BY <1>7, <2>1, <2>2
  <2>3. ASSUME automatic' = automatic + 1, NEW s \in F, s \notin O1
        PROVE  a1 + Cardinality(O1) <= a + h
    <3>1. O1 \subseteq F \ {s} /\ IsFiniteSet(F \ {s}) /\ Cardinality(F \ {s}) = h - 1
      BY <1>8, <1>9, <1>10, <2>3, FS_RemoveElement
    <3>2. Cardinality(O1) <= h - 1
      BY <3>1, FS_Subset
    <3>. QED BY <1>7, <1>9, <2>1, <2>3, <3>2
  <2>. QED BY <1>8, <2>1, <2>2, <2>3
<1>12. a + o <= n * x
  BY <1>1, <1>2, <1>5, <1>7, <1>9 DEF SchedulerInv, Paid
<1>13. a1 + o1 <= n * x1
  <2>1. CASE OldSince = {}
    <3>1. f = 0
      BY <1>9, <2>1, FS_EmptySet
    <3>2. n * x <= n * x1 /\ n * x \in Nat /\ n * x1 \in Nat
      BY <1>6, Pays
    <3>. QED BY <1>10, <1>11, <1>12, <3>1, <3>2
  <2>2. ASSUME NEW s \in OldSince PROVE a1 + o1 <= n * x1
    <3>1. s \in Schedulers /\ plan[s].at # "idle" /\ ~plan[s].raced /\ plan[s].age > policy.days
      BY <2>2 DEF OldSince, FoundOld
    <3>2. plan[s].age <= key.age
      BY <3>1 DEF SchedulerInv, PlansKnow, PlanKnows
    <3>3. plan[s].age \in Nat /\ key.age \in Nat /\ policy.days \in Nat /\ today \in Nat
      BY <3>1, SchedulerAssumption DEF SchedulerInv, SchedulerShape, APlan, AnAge
    <3>4. l + d <= l1
      BY <1>2, <1>3, <3>1, <3>2, <3>3 DEF LastRotated
    <3>5. n * x + n <= n * x1 /\ n * x \in Nat /\ n * x1 \in Nat
      BY <1>6, <3>4, Pays
    <3>. QED BY <1>10, <1>11, <1>12, <3>5
  <2>. QED BY <2>1, <2>2
<1>. QED BY <1>1, <1>2, <1>3, <1>5, <1>7, <1>8, <1>11, <1>13

\* A key that is due stays due as it ages and is used.
LEMMA DueStays ==
    ASSUME policy \in RotationPolicies, NEW a \in Nat, NEW a1 \in Nat, a <= a1, NEW v,
           NEW o \in Nat, NEW o1 \in Nat, o <= o1, needs_rotation(a, v, o)
    PROVE  needs_rotation(a1, v, o1)
<1>1. policy.days \in Nat /\ policy.operations \in Nat
  BY SchedulerAssumption
<1>2. /\ a > policy.days => a1 > policy.days
      /\ o >= policy.operations => o1 >= policy.operations
  BY <1>1
<1>. QED BY <1>1, <1>2 DEF needs_rotation

\* A call at rest.
LEMMA NoPlanIs ==
    NoPlan \in APlan /\ NoPlan.at = "idle"
<1>1. PICK b \in BOOLEAN : b = FALSE
  OBVIOUS
<1>2. NoPlan = [at |-> "idle", age |-> 0, version |-> 0, raced |-> b, wasDue |-> b]
  BY <1>1, Zenon DEF NoPlan
<1>. QED BY <1>2 DEF APlan

\* The key ages, is used or is deleted: the calls stay as they are.
LEMMA KeyStep ==
    ASSUME SchedulerInv, key' \in AnAge, key'.version = key.version, key.age <= key'.age,
           today' \in Nat, today' - key'.age = today - key.age,
           UNCHANGED <<policy, plan, early, automatic>>
    PROVE  SchedulerInv'
<1>1. key.age \in Nat /\ key'.age \in Nat /\ today \in Nat /\ key.age <= today
  BY DEF SchedulerInv, SchedulerShape, AnAge
<1>2. SchedulerShape'
  BY <1>1 DEF SchedulerInv, SchedulerShape
<1>3. ASSUME NEW s \in Schedulers PROVE PlanKnows(s)'
  <2>1. plan[s].age \in Nat
    BY DEF SchedulerInv, SchedulerShape, APlan
  <2>2. PlanKnows(s)
    BY DEF SchedulerInv, PlansKnow
  <2>. QED BY <1>1, <2>1, <2>2 DEF PlanKnows
<1>4. OldBefore' = OldBefore /\ LastRotated' = LastRotated
  BY DEF OldBefore, FoundOld, LastRotated
<1>5. Paid'
  BY <1>2, <1>4, PaidKeeps DEF SchedulerInv
<1>. QED BY <1>2, <1>3, <1>5 DEF SchedulerInv, PlansKnow

\* One call goes on and the key stays as it is.
LEMMA PlanStep ==
    ASSUME SchedulerInv, NEW s \in Schedulers, NEW p \in APlan,
           plan' = [plan EXCEPT ![s] = p], UNCHANGED <<policy, key, today, early, automatic>>,
           PlanKnows(s)',
           p.at # "idle" /\ p.raced => plan[s].at # "idle" /\ plan[s].raced /\ p.age = plan[s].age
    PROVE  SchedulerInv'
<1>1. /\ plan' \in [Schedulers -> APlan] /\ plan'[s] = p
      /\ \A v \in Schedulers \ {s} : plan'[v] = plan[v]
  BY DEF SchedulerInv, SchedulerShape
<1>2. SchedulerShape'
  BY <1>1 DEF SchedulerInv, SchedulerShape
<1>3. ASSUME NEW v \in Schedulers \ {s} PROVE PlanKnows(v)'
  <2>1. PlanKnows(v) /\ plan'[v] = plan[v]
    BY <1>1 DEF SchedulerInv, PlansKnow
  <2>. QED BY <2>1 DEF PlanKnows
<1>4. OldBefore' \subseteq OldBefore /\ LastRotated' = LastRotated
  <2>1. ASSUME NEW v \in OldBefore' PROVE v \in OldBefore
    <3>1. v \in Schedulers /\ plan'[v].at # "idle" /\ plan'[v].age > policy.days /\ plan'[v].raced
      BY DEF OldBefore, FoundOld
    <3>2. plan[v].at # "idle" /\ plan[v].age > policy.days /\ plan[v].raced
      BY <1>1, <3>1
    <3>. QED BY <3>1, <3>2 DEF OldBefore, FoundOld
  <2>. QED BY <2>1 DEF LastRotated
<1>5. Paid'
  BY <1>2, <1>4, PaidKeeps DEF SchedulerInv
<1>. QED BY <1>2, <1>3, <1>5 DEF SchedulerInv, PlansKnow

\* A call that ends.
LEMMA EndStep ==
    ASSUME SchedulerInv, NEW s \in Schedulers, plan' = [plan EXCEPT ![s] = NoPlan],
           UNCHANGED <<policy, key, today, early, automatic>>
    PROVE  SchedulerInv'
<1>1. PICK p \in APlan : p = NoPlan /\ p.at = "idle"
  BY NoPlanIs
<1>2. plan'[s] = p
  BY <1>1 DEF SchedulerInv, SchedulerShape
<1>3. PlanKnows(s)'
  BY <1>1, <1>2 DEF PlanKnows
<1>. QED BY <1>1, <1>3, PlanStep

\* check_rotation reads the metadata.
LEMMA ReadMetadataStep ==
    ASSUME SchedulerInv, NEW s \in Schedulers, read_metadata(s)
    PROVE  SchedulerInv'
<1>1. PICK b \in BOOLEAN : b = FALSE
  OBVIOUS
<1>12. PICK c \in BOOLEAN : c = Due
  <2>1. Due \in BOOLEAN
    BY Zenon DEF Due, needs_rotation
  <2>. QED BY <2>1
<1>2. PICK v \in Nat, a \in Nat : v = key.version /\ a = key.age
  BY DEF SchedulerInv, SchedulerShape, AnAge
<1>3. PICK n \in APlan : n = NoPlan /\ n.raced = b
  <2>1. PICK n : n = [at |-> "idle", age |-> 0, version |-> 0, raced |-> b, wasDue |-> b]
    OBVIOUS
  <2>2. n \in APlan /\ n.raced = b
    BY <2>1 DEF APlan
  <2>3. n = NoPlan
    BY <1>1, <2>1, Zenon DEF NoPlan
  <2>. QED BY <2>2, <2>3
<1>10. PICK p : p = [n EXCEPT !.at = "count", !.version = v, !.age = a, !.wasDue = c]
  OBVIOUS
<1>4. p \in APlan /\ p.at = "count" /\ p.age = a /\ p.version = v /\ p.raced = b
  BY <1>3, <1>10 DEF APlan
<1>5. plan' = [plan EXCEPT ![s] = p]
  BY <1>12, <1>2, <1>3, <1>10, Zenon DEF read_metadata
<1>6. plan'[s] = p
  BY <1>5 DEF SchedulerInv, SchedulerShape
<1>7. UNCHANGED <<policy, key, today, early, automatic>>
  BY DEF read_metadata
<1>8. PlanKnows(s)'
  BY <1>2, <1>4, <1>6, <1>7 DEF PlanKnows
<1>9. ~p.raced
  BY <1>1, <1>4
<1>. QED BY <1>4, <1>5, <1>7, <1>8, <1>9, PlanStep

\* It reads the counter, perhaps as 0, and has its verdict: a key it finds due on
\* what it read is due now, if no rotation came in between.
LEMMA ReadCountStep ==
    ASSUME SchedulerInv, NEW s \in Schedulers, read_count(s)
    PROVE  SchedulerInv'
<1>1. PICK ops \in {key.ops, 0} :
        plan' = [plan EXCEPT ![s] = 
                  IF needs_rotation(plan[s].age, plan[s].version, ops)
                  THEN [plan[s] EXCEPT !.at = "rotate", !.wasDue = plan[s].wasDue \/ Due]
                  ELSE NoPlan]
  BY Zenon DEF read_count
<1>2. plan[s].at = "count" /\ UNCHANGED <<policy, key, today, early, automatic>>
  BY DEF read_count, Planned
<1>3. PICK c \in APlan : c = plan[s]
  BY DEF SchedulerInv, SchedulerShape
<1>4. CASE ~needs_rotation(c.age, c.version, ops)
  <2>1. plan' = [plan EXCEPT ![s] = NoPlan]
    BY <1>1, <1>3, <1>4
  <2>. QED BY <1>2, <2>1, EndStep
<1>5. CASE needs_rotation(c.age, c.version, ops)
  <2>1. PICK w \in BOOLEAN : w = (c.wasDue \/ Due)
    OBVIOUS
  <2>2. PICK p : p = [c EXCEPT !.at = "rotate", !.wasDue = w]
    OBVIOUS
  <2>3. /\ p \in APlan /\ p.at = "rotate" /\ p.age = c.age /\ p.version = c.version
        /\ p.raced = c.raced /\ p.wasDue = w
    BY <2>2 DEF APlan
  <2>4. plan' = [plan EXCEPT ![s] = p]
    <3>1. PICK n : n = IF needs_rotation(plan[s].age, plan[s].version, ops)
                       THEN [plan[s] EXCEPT !.at = "rotate", !.wasDue = plan[s].wasDue \/ Due]
                       ELSE NoPlan
      OBVIOUS
    <3>2. plan' = [plan EXCEPT ![s] = n]
      BY <1>1, <3>1, Zenon
    <3>3. n = [plan[s] EXCEPT !.at = "rotate", !.wasDue = plan[s].wasDue \/ Due]
      BY <1>3, <1>5, <3>1, Zenon
    <3>4. n = p
      BY <1>3, <2>1, <2>2, <3>3, Zenon
    <3>. QED BY <3>2, <3>4
  <2>5. plan'[s] = p
    BY <2>4 DEF SchedulerInv, SchedulerShape
  <2>6. PlanKnows(s)
    BY DEF SchedulerInv, PlansKnow
  <2>7. c.at # "idle" /\ (~c.raced => c.age <= key.age /\ c.version = key.version)
    BY <1>2, <1>3, <2>6 DEF PlanKnows
  <2>8. ASSUME ~c.raced PROVE Due
    <3>1. c.age \in Nat /\ key.age \in Nat /\ key.ops \in Nat /\ ops \in Nat /\ ops <= key.ops
      BY DEF SchedulerInv, SchedulerShape, AnAge, APlan
    <3>2. c.age <= key.age /\ c.version = key.version
      BY <2>7, <2>8
    <3>3. needs_rotation(key.age, c.version, key.ops)
      BY <1>5, <3>1, <3>2, DueStays DEF SchedulerInv, SchedulerShape
    <3>. QED BY <3>2, <3>3 DEF Due
  <2>9. ~p.raced => p.wasDue
    BY <2>1, <2>3, <2>8
  <2>10. policy.kind = "time" => c.age > policy.days
    BY <1>5 DEF needs_rotation
  <2>11. PlanKnows(s)'
    BY <1>2, <2>3, <2>5, <2>7, <2>9, <2>10 DEF PlanKnows
  <2>. QED BY <1>2, <1>3, <2>3, <2>4, <2>7, <2>11, PlanStep
<1>. QED BY <1>4, <1>5

\* Every call under way is marked by a rotation.
LEMMA OverlapIs ==
    ASSUME SchedulerShape
    PROVE  /\ Overlap \in [Schedulers -> APlan]
           /\ \A v \in Schedulers : /\ Overlap[v].at = plan[v].at /\ Overlap[v].age = plan[v].age
                                    /\ plan[v].at # "idle" => Overlap[v].raced
<1>1. PICK b \in BOOLEAN : b = TRUE
  OBVIOUS
<1>2. ASSUME NEW v \in Schedulers
      PROVE  /\ Overlap[v] \in APlan /\ Overlap[v].at = plan[v].at /\ Overlap[v].age = plan[v].age
             /\ plan[v].at # "idle" => Overlap[v].raced
  <2>1. PICK c \in APlan : c = plan[v]
    BY DEF SchedulerShape
  <2>2. PICK m : m = [c EXCEPT !.raced = b]
    OBVIOUS
  <2>3. m \in APlan /\ m.at = c.at /\ m.age = c.age /\ m.raced = b
    BY <2>2 DEF APlan
  <2>4. m = [plan[v] EXCEPT !.raced = TRUE]
    BY <1>1, <2>1, <2>2, Zenon
  <2>5. Overlap[v] = IF c.at = "idle" THEN c ELSE m
    BY <2>1, <2>4 DEF Overlap, Planned
  <2>6. m.raced
    BY <1>1, <2>3
  <2>. QED BY <2>1, <2>3, <2>5, <2>6
<1>3. Overlap = [v \in Schedulers |-> Overlap[v]]
  BY DEF Overlap
<1>. QED BY <1>2, <1>3

\* A new version: its age starts again.
LEMMA RotatedIs ==
    ASSUME key \in AnAge
    PROVE  Rotated(key) \in AnAge /\ Rotated(key).age = 0
<1>1. PICK k \in AnAge : k = key
  OBVIOUS
<1>2. PICK v \in Nat : v = k.version + 1
  BY DEF AnAge
<1>3. PICK n : n = [k EXCEPT !.version = v, !.age = 0]
  OBVIOUS
<1>4. n \in AnAge /\ n.age = 0
  BY <1>3 DEF AnAge
<1>5. n = Rotated(key)
  BY <1>1, <1>2, <1>3 DEF Rotated
<1>. QED BY <1>4, <1>5

\* An operator rotates the key.
LEMMA ManualStep ==
    ASSUME SchedulerInv, rotate_manually
    PROVE  SchedulerInv'
<1>1. key' \in AnAge /\ key'.age = 0 /\ UNCHANGED <<policy, today, early, automatic>>
  BY RotatedIs DEF rotate_manually, SchedulerInv, SchedulerShape
<1>2. /\ plan' \in [Schedulers -> APlan]
      /\ \A v \in Schedulers : /\ plan'[v].at = plan[v].at /\ plan'[v].age = plan[v].age
                               /\ plan[v].at # "idle" => plan'[v].raced
  BY OverlapIs DEF rotate_manually, SchedulerInv
<1>3. SchedulerShape'
  BY <1>1, <1>2 DEF SchedulerInv, SchedulerShape
<1>4. ASSUME NEW v \in Schedulers PROVE PlanKnows(v)'
  <2>1. PlanKnows(v)
    BY DEF SchedulerInv, PlansKnow
  <2>. QED BY <1>1, <1>2, <2>1 DEF PlanKnows
<1>5. OldBefore' \subseteq FoundOld
  BY <1>1, <1>2 DEF OldBefore, FoundOld
<1>6. Paid'
  BY <1>1, <1>3, <1>5, PaidRotates
<1>. QED BY <1>1, <1>3, <1>4, <1>6 DEF SchedulerInv, PlansKnow

\* A scheduler rotates the key, or fails to.
LEMMA RotateDueStep ==
    ASSUME SchedulerInv, NEW s \in Schedulers, rotate_due(s)
    PROVE  SchedulerInv'
<1>1. CASE plan' = [plan EXCEPT ![s] = NoPlan] /\ UNCHANGED <<policy, key, today, early, automatic>>
  BY <1>1, EndStep
<1>2. ASSUME key' = Rotated(key), plan' = [Overlap EXCEPT ![s] = NoPlan],
             early' = (early \/ (~plan[s].wasDue /\ ~plan[s].raced)), automatic' = automatic + 1,
             UNCHANGED <<policy, today>>
      PROVE  SchedulerInv'
  <2>1. key' \in AnAge /\ key'.age = 0
    BY <1>2, RotatedIs DEF SchedulerInv, SchedulerShape
  <2>2. /\ plan' \in [Schedulers -> APlan] /\ plan'[s].at = "idle"
        /\ \A v \in Schedulers \ {s} : /\ plan'[v].at = plan[v].at /\ plan'[v].age = plan[v].age
                                       /\ plan[v].at # "idle" => plan'[v].raced
    <3>1. PICK o \in [Schedulers -> APlan], p \in APlan : o = Overlap /\ p = NoPlan /\ p.at = "idle"
      BY OverlapIs, NoPlanIs DEF SchedulerInv
    <3>2. plan' = [o EXCEPT ![s] = p]
      BY <1>2, <3>1
    <3>3. plan' \in [Schedulers -> APlan] /\ plan'[s] = p /\ \A v \in Schedulers \ {s} : plan'[v] = o[v]
      BY <3>2
    <3>. QED BY <3>1, <3>3, OverlapIs DEF SchedulerInv
  <2>3. SchedulerShape'
    BY <1>2, <2>1, <2>2 DEF SchedulerInv, SchedulerShape
  <2>4. ASSUME NEW v \in Schedulers PROVE PlanKnows(v)'
    <3>1. PlanKnows(v)
      BY DEF SchedulerInv, PlansKnow
    <3>2. CASE v = s
      BY <2>2, <3>2 DEF PlanKnows
    <3>3. CASE v # s
      BY <1>2, <2>2, <3>1, <3>3 DEF PlanKnows
    <3>. QED BY <3>2, <3>3
  <2>5. plan[s].at = "rotate" /\ PlanKnows(s)
    BY DEF rotate_due, Planned, SchedulerInv, PlansKnow
  <2>6. ~early'
    BY <1>2, <2>5 DEF PlanKnows, SchedulerInv
  <2>7. OldBefore' \subseteq FoundOld /\ s \notin OldBefore'
    BY <1>2, <2>2 DEF OldBefore, FoundOld
  <2>8. CASE policy.kind = "time"
    <3>1. s \in FoundOld
      BY <2>5, <2>8 DEF PlanKnows, FoundOld
    <3>2. Paid'
      BY <1>2, <2>1, <2>3, <2>7, <3>1, PaidRotates
    <3>. QED BY <2>3, <2>4, <2>6, <3>2 DEF SchedulerInv, PlansKnow
  <2>9. CASE policy.kind # "time"
    <3>1. Paid'
      BY <1>2, <2>9 DEF Paid
    <3>. QED BY <2>3, <2>4, <2>6, <3>1 DEF SchedulerInv, PlansKnow
  <2>. QED BY <2>8, <2>9
<1>. QED BY <1>1, <1>2 DEF rotate_due

\* A service that starts, with a new key.
LEMMA SchedulerInitially ==
    ASSUME RotationInit
    PROVE  SchedulerInv
<1>1. PICK p \in APlan : p = NoPlan /\ p.at = "idle"
  BY NoPlanIs
<1>2. plan = [s \in Schedulers |-> p]
  BY <1>1 DEF RotationInit
<1>3. plan \in [Schedulers -> APlan] /\ \A s \in Schedulers : plan[s].at = "idle"
  BY <1>1, <1>2
<1>4. key \in AnAge /\ key.age = 0
  <2>1. PICK b \in BOOLEAN : b = TRUE
    OBVIOUS
  <2>2. key = [version |-> 1, age |-> 0, ops |-> 0, alive |-> b]
    BY <2>1, Zenon DEF RotationInit
  <2>. QED BY <2>2 DEF AnAge
<1>5. today = 0 /\ automatic = 0 /\ ~early /\ policy \in RotationPolicies
  BY DEF RotationInit
<1>6. SchedulerShape
  BY <1>3, <1>4, <1>5 DEF SchedulerShape
<1>7. PlansKnow
  BY <1>3 DEF PlansKnow, PlanKnows
<1>8. Paid
  <2>1. OldBefore = {}
    BY <1>3 DEF OldBefore, FoundOld
  <2>2. Cardinality(OldBefore) = 0
    BY <2>1, FS_EmptySet
  <2>3. PICK n \in Nat : n = Cardinality(Schedulers)
    BY <1>6, OldAreFew
  <2>4. PICK d \in Nat, l \in Nat : d = policy.days + 1 /\ d > 0 /\ l = LastRotated
    BY <1>6, LastRotatedIs
  <2>5. PICK x \in Nat : x = l \div d
    BY <2>4, Periods
  <2>6. n * x \in Nat
    BY Pays
  <2>. QED BY <1>5, <2>2, <2>3, <2>4, <2>5, <2>6 DEF Paid
<1>. QED BY <1>5, <1>6, <1>7, <1>8 DEF SchedulerInv

\* The key is used or deleted, or a day passes.
LEMMA WorldStep ==
    ASSUME SchedulerInv, delete_meanwhile \/ increment_operations \/ DayPasses
    PROVE  SchedulerInv'
<1>1. PICK k \in AnAge : k = key
  BY DEF SchedulerInv, SchedulerShape
<1>2. today \in Nat /\ k.age \in Nat /\ k.ops \in Nat
  BY DEF SchedulerInv, SchedulerShape, AnAge
<1>3. CASE delete_meanwhile
  <2>1. PICK b \in BOOLEAN : b = FALSE
    OBVIOUS
  <2>2. key' = [k EXCEPT !.alive = b]
    BY <1>1, <1>3, <2>1, Zenon DEF delete_meanwhile
  <2>3. key' \in AnAge /\ key'.version = k.version /\ key'.age = k.age
    BY <2>2 DEF AnAge
  <2>. QED BY <1>1, <1>2, <1>3, <2>3, KeyStep DEF delete_meanwhile
<1>4. CASE increment_operations
  <2>1. PICK o \in Nat : o = k.ops + 1
    BY <1>2
  <2>2. key' = [k EXCEPT !.ops = o]
    BY <1>1, <1>4, <2>1 DEF increment_operations
  <2>3. key' \in AnAge /\ key'.version = k.version /\ key'.age = k.age
    BY <2>2 DEF AnAge
  <2>. QED BY <1>1, <1>2, <1>4, <2>3, KeyStep DEF increment_operations
<1>5. CASE DayPasses
  <2>1. PICK a \in Nat : a = k.age + 1
    BY <1>2
  <2>2. key' = [k EXCEPT !.age = a]
    BY <1>1, <1>5, <2>1 DEF DayPasses
  <2>3. key' \in AnAge /\ key'.version = k.version /\ key'.age = a
    BY <2>2 DEF AnAge
  <2>4. today' = today + 1 /\ UNCHANGED <<policy, plan, early, automatic>>
    BY <1>5 DEF DayPasses
  <2>5. key.age <= key'.age /\ today' \in Nat /\ today' - key'.age = today - key.age
    BY <1>1, <1>2, <2>1, <2>3, <2>4
  <2>. QED BY <1>1, <2>3, <2>4, <2>5, KeyStep
<1>. QED BY <1>3, <1>4, <1>5

\* Every step of the services, of an operator and of the world around them
\* preserves it.
LEMMA SchedulerInductive ==
    ASSUME SchedulerInv, [RotationNext]_rotationVars
    PROVE  SchedulerInv'
<1>1. CASE UNCHANGED rotationVars
  BY <1>1 DEF rotationVars, SchedulerInv, SchedulerShape, PlansKnow, PlanKnows, Paid, LastRotated,
              OldBefore, FoundOld
<1>2. CASE RotationNext
  BY <1>2, ReadMetadataStep, ReadCountStep, RotateDueStep, ManualStep, WorldStep DEF RotationNext
<1>. QED BY <1>1, <1>2

\* RotationService, for any number of services, any policy and any length of
\* time: a version goes only when its policy was met while the check ran, or when
\* another rotation overlapped, and under a time policy the rotations stay within
\* one per service and period.
THEOREM RotationsAreSound == RotationSpec => []RotationSound
<1>1. RotationInit => SchedulerInv
  BY SchedulerInitially
<1>2. SchedulerInv /\ [RotationNext]_rotationVars => SchedulerInv'
  BY SchedulerInductive
<1>3. SchedulerInv => RotationSound
  <2>. SUFFICES ASSUME SchedulerInv, policy.kind = "time"
                PROVE  automatic <= Cardinality(Schedulers) * (today \div (policy.days + 1))
    BY DEF SchedulerInv, RotationSound, RotatedWhenDue, OncePerPeriod
  <2>1. PICK n \in Nat : n = Cardinality(Schedulers)
    BY OldAreFew DEF SchedulerInv
  <2>2. PICK d \in Nat, l \in Nat : d = policy.days + 1 /\ d > 0 /\ l = LastRotated
    BY LastRotatedIs DEF SchedulerInv
  <2>3. PICK t \in Nat, a \in Nat : t = today /\ a = automatic
    BY DEF SchedulerInv, SchedulerShape
  <2>4. l <= t
    BY <2>2, <2>3, LastRotatedIs DEF SchedulerInv
  <2>5. PICK x \in Nat, y \in Nat : x = l \div d /\ y = t \div d /\ x <= y
    BY <2>2, <2>4, Periods
  <2>6. PICK o \in Nat : o = Cardinality(OldBefore)
    BY OldAreFew DEF SchedulerInv
  <2>7. a + o <= n * x
    BY <2>1, <2>2, <2>3, <2>5, <2>6 DEF SchedulerInv, Paid
  <2>8. n * x <= n * y /\ n * x \in Nat /\ n * y \in Nat
    BY <2>5, Pays
  <2>9. a <= n * y
    BY <2>7, <2>8
  <2>. QED BY <2>1, <2>2, <2>3, <2>5, <2>9
<1>. QED BY <1>1, <1>2, <1>3, PTL DEF RotationSpec

-----------------------------------------------------------------------------
(* BreakGlass.  AccessBounded is not inductive: that the access ends       *)
(* within the hour rests on the deadline the request was given when it was *)
(* made, and that it was confirmed on the record of the confirmation;      *)
(* RequestInv says both of every request.                                  *)

\* What every request owes its creation and its confirmation.
RequestInv ==
    \A r \in DOMAIN requests :
        /\ requests[r].expires <= requests[r].created + MAX_BREAK_GLASS_DURATION_MINS
        /\ requests[r].status = "Activated" =>
              \E a \in activated :
                  a.id = r /\ a.by = requests[r].second /\ a.at <= requests[r].expires

BreakGlassInv == TypeOK /\ RequestInv

\* Whatever duration is asked for, the request gets at most an hour.
LEMMA CappedIsShort ==
    \A n \in Nat : Capped(n) \in Nat /\ Capped(n) <= MAX_BREAK_GLASS_DURATION_MINS
  BY DEF Capped, MAX_BREAK_GLASS_DURATION_MINS

\* A new request is well formed and not activated.
LEMMA NewRequestWellFormed ==
    ASSUME now \in Nat, NEW res \in Resources, NEW u \in Users, NEW first \in Users,
           NEW second \in Users, NEW minutes \in Nat
    PROVE  /\ NewRequest(res, u, first, second, minutes) \in BreakGlassRequest
           /\ NewRequest(res, u, first, second, minutes).expires
                 <= NewRequest(res, u, first, second, minutes).created
                      + MAX_BREAK_GLASS_DURATION_MINS
           /\ NewRequest(res, u, first, second, minutes).status # "Activated"
<1>1. Capped(minutes) \in Nat /\ Capped(minutes) <= MAX_BREAK_GLASS_DURATION_MINS
  BY CappedIsShort
<1>2. now + Capped(minutes) \in Nat
  BY <1>1
<1> QED
  BY <1>1, <1>2 DEF NewRequest, BreakGlassRequest, BreakGlassStatus,
                    MAX_BREAK_GLASS_DURATION_MINS

LEMMA InitEstablishes == Init => BreakGlassInv
  BY DEF Init, BreakGlassInv, TypeOK, RequestInv

\* Every call and every tick of the clock preserves the invariant.
LEMMA StepPreserves == BreakGlassInv /\ [Next]_vars => BreakGlassInv'
<1> SUFFICES ASSUME BreakGlassInv, [Next]_vars PROVE BreakGlassInv'
  OBVIOUS
<1> USE ConstantsAssumption
<1>1. ASSUME NEW r \in RequestIds, NEW res \in Resources, NEW u \in Users,
             NEW first \in Users, NEW second \in Users, NEW minutes \in Durations,
             create_break_glass_request(r, res, u, first, second, minutes)
      PROVE  BreakGlassInv'
  <2> DEFINE q == NewRequest(res, u, first, second, minutes)
  <2>1. /\ q \in BreakGlassRequest
        /\ q.expires <= q.created + MAX_BREAK_GLASS_DURATION_MINS
        /\ q.status # "Activated"
    BY NewRequestWellFormed DEF BreakGlassInv, TypeOK
  <2>2. /\ requests' = Put(requests, r, q)
        /\ r \notin DOMAIN requests
        /\ UNCHANGED <<now, confirmed, activated>>
    BY <1>1 DEF create_break_glass_request
  <2> HIDE DEF q
  <2>3. /\ DOMAIN requests' = DOMAIN requests \cup {r}
        /\ requests'[r] = q
        /\ \A x \in DOMAIN requests : requests'[x] = requests[x]
    BY <2>2 DEF Put
  <2>4. TypeOK'
    BY <2>1, <2>2, <2>3 DEF BreakGlassInv, TypeOK
  <2>5. RequestInv'
    BY <2>1, <2>2, <2>3 DEF BreakGlassInv, RequestInv
  <2> QED
    BY <2>4, <2>5 DEF BreakGlassInv
<1>2. ASSUME NEW r \in RequestIds, NEW u \in Users, confirm_break_glass_first(r, u)
      PROVE  BreakGlassInv'
  BY <1>2 DEF BreakGlassInv, TypeOK, RequestInv, confirm_break_glass_first, Awaiting, SetStatus,
              BreakGlassRequest, BreakGlassStatus
<1>3. ASSUME NEW r \in RequestIds, NEW u \in Users, confirm_break_glass_second(r, u)
      PROVE  BreakGlassInv'
  <2>1. /\ r \in DOMAIN requests /\ requests[r].second = u
        /\ now \in Nat /\ requests[r].expires \in Nat
    BY <1>3 DEF confirm_break_glass_second, Awaiting, BreakGlassInv, TypeOK, BreakGlassRequest
  <2>2. CASE Overdue(r) /\ SetStatus(r, "Expired") /\ UNCHANGED <<activated, now, confirmed>>
    BY <2>1, <2>2 DEF BreakGlassInv, TypeOK, RequestInv, SetStatus, BreakGlassRequest, BreakGlassStatus
  <2>3. CASE /\ ~Overdue(r)
             /\ SetStatus(r, "Activated")
             /\ activated' = activated \cup {[id |-> r, by |-> u, at |-> now]}
             /\ UNCHANGED <<now, confirmed>>
    <3>1. TypeOK'
      BY <2>1, <2>3 DEF BreakGlassInv, TypeOK, SetStatus, BreakGlassRequest, BreakGlassStatus
    <3>2. [id |-> r, by |-> u, at |-> now] \in activated' /\ now <= requests[r].expires
      BY <2>1, <2>3 DEF Overdue
    <3>3. RequestInv'
      <4> SUFFICES ASSUME NEW x \in DOMAIN requests'
                   PROVE  /\ requests'[x].expires
                               <= requests'[x].created + MAX_BREAK_GLASS_DURATION_MINS
                          /\ requests'[x].status = "Activated" =>
                                \E a \in activated' :
                                    a.id = x /\ a.by = requests'[x].second
                                             /\ a.at <= requests'[x].expires
        BY DEF RequestInv
      <4>1. /\ x \in DOMAIN requests
            /\ requests'[x].expires = requests[x].expires
            /\ requests'[x].created = requests[x].created
            /\ requests'[x].second = requests[x].second
            /\ x # r => requests'[x] = requests[x]
        BY <2>3 DEF SetStatus, BreakGlassInv, TypeOK, BreakGlassRequest
      <4>2. CASE x = r
        BY <2>1, <3>2, <4>1, <4>2 DEF BreakGlassInv, RequestInv
      <4>3. CASE x # r
        BY <2>3, <4>1, <4>3 DEF BreakGlassInv, RequestInv
      <4> QED
        BY <4>2, <4>3
    <3> QED
      BY <3>1, <3>3 DEF BreakGlassInv
  <2> QED
    BY <1>3, <2>2, <2>3 DEF confirm_break_glass_second
<1>4. ASSUME NEW r \in RequestIds, NEW u \in Users, cancel_break_glass(r, u)
      PROVE  BreakGlassInv'
  BY <1>4 DEF BreakGlassInv, TypeOK, RequestInv, cancel_break_glass, SetStatus,
              BreakGlassRequest, BreakGlassStatus
<1>5. CASE cleanup_expired_break_glass
  BY <1>5 DEF BreakGlassInv, TypeOK, RequestInv, cleanup_expired_break_glass,
              BreakGlassRequest, BreakGlassStatus
<1>6. CASE Tick
  BY <1>6 DEF BreakGlassInv, TypeOK, RequestInv, Tick
<1>7. CASE UNCHANGED vars
  BY <1>7 DEF BreakGlassInv, TypeOK, RequestInv, vars
<1> QED
  BY <1>1, <1>2, <1>3, <1>4, <1>5, <1>6, <1>7 DEF Next

LEMMA BreakGlassInvariant == Spec => []BreakGlassInv
  BY InitEstablishes, StepPreserves, PTL DEF Spec

\* Requests and history keep their shape, for any constants.
THEOREM BreakGlassTypeCorrect == Spec => []TypeOK
<1>1. BreakGlassInv => TypeOK
  BY DEF BreakGlassInv
<1> QED
  BY <1>1, BreakGlassInvariant, PTL

\* Emergency access closes by itself within the hour of a request that the named
\* second approver confirmed in time, with or without the clean-up.
THEOREM AccessIsBounded == Spec => []AccessBounded
<1>1. BreakGlassInv => AccessBounded
  <2> SUFFICES ASSUME BreakGlassInv, NEW res \in Resources, NEW r \in DOMAIN requests,
                      requests[r].resource = res,
                      requests[r].status = "Activated",
                      now <= requests[r].expires
               PROVE  /\ requests[r].resource = res
                      /\ now <= requests[r].created + MAX_BREAK_GLASS_DURATION_MINS
                      /\ \E a \in activated :
                            a.id = r /\ a.by = requests[r].second
                                     /\ a.at <= requests[r].expires
    BY DEF AccessBounded, is_break_glass_active
  <2>1. /\ requests[r].expires \in Nat /\ requests[r].created \in Nat /\ now \in Nat
        /\ requests[r].expires <= requests[r].created + MAX_BREAK_GLASS_DURATION_MINS
        /\ \E a \in activated :
              a.id = r /\ a.by = requests[r].second /\ a.at <= requests[r].expires
    BY DEF BreakGlassInv, TypeOK, RequestInv, BreakGlassRequest
  <2> QED
    BY <2>1 DEF MAX_BREAK_GLASS_DURATION_MINS
<1> QED
  BY <1>1, BreakGlassInvariant, PTL

\* One step of the system leaves a cancelled or expired request as it is, and an
\* activated one activated or expired.
LEMMA StepKeepsOutcome ==
    ASSUME BreakGlassInv, [Next]_vars
    PROVE  \A r \in DOMAIN requests :
               LET s == requests[r].status
                   t == requests'[r].status IN
               /\ s \in {"Cancelled", "Expired"} => t = s
               /\ s = "Activated" => t \in {"Activated", "Expired"}
<1> USE DEF BreakGlassInv, TypeOK, BreakGlassRequest
<1>1. ASSUME NEW r \in RequestIds, NEW res \in Resources, NEW u \in Users,
             NEW first \in Users, NEW second \in Users, NEW minutes \in Durations,
             create_break_glass_request(r, res, u, first, second, minutes)
      PROVE  \A x \in DOMAIN requests : requests'[x] = requests[x]
  BY <1>1 DEF create_break_glass_request, Put
<1>2. ASSUME NEW r \in RequestIds, NEW u \in Users,
             \/ confirm_break_glass_first(r, u)
             \/ confirm_break_glass_second(r, u)
      PROVE  \A x \in DOMAIN requests :
                 requests[x].status # "PendingDualApproval" => requests'[x] = requests[x]
  BY <1>2 DEF confirm_break_glass_first, confirm_break_glass_second, Awaiting, SetStatus
<1>3. ASSUME NEW r \in RequestIds, NEW u \in Users, cancel_break_glass(r, u)
      PROVE  \A x \in DOMAIN requests :
                 \/ requests'[x] = requests[x]
                 \/ /\ requests[x].status \notin {"Activated", "Expired"}
                    /\ requests'[x].status = "Cancelled"
  BY <1>3 DEF cancel_break_glass, MayCancel, SetStatus
<1>4. CASE cleanup_expired_break_glass
  BY <1>4 DEF cleanup_expired_break_glass
<1>5. CASE UNCHANGED requests
  BY <1>5
<1> QED
  BY <1>1, <1>2, <1>3, <1>4, <1>5 DEF Next, Tick, vars

\* A cancelled or expired request is never opened again, and an access that was
\* granted stays on record.
THEOREM OutcomesAreFinal == Spec => OutcomeFinal
  BY BreakGlassInvariant, StepKeepsOutcome, PTL DEF Spec, OutcomeFinal

-----------------------------------------------------------------------------
(* BoundedKeyCache: the calls in flight.                                   *)

\* A thread goes to its next step, the others stay where they are.
LEMMA GotoPc ==
    ASSUME NEW t, NEW at, NEW k, Goto(t, at, k)
    PROVE  /\ DOMAIN pc' = DOMAIN pc \cup {t}
           /\ pc'[t] = [at |-> at, key |-> k]
           /\ pc'[t].at = at /\ pc'[t].key = k
           /\ \A x \in DOMAIN pc \ {t} : pc'[x] = pc[x]
BY DEF Goto

\* A thread is done, the others stay where they are.
LEMMA DonePc ==
    ASSUME NEW t, Done(t)
    PROVE  /\ DOMAIN pc' = DOMAIN pc \ {t}
           /\ \A x \in DOMAIN pc \ {t} : pc'[x] = pc[x]
BY DEF Done

\* The calls in flight keep their shape when one of them moves or ends.
LEMMA PcType ==
    ASSUME CacheTypeOK, NEW t \in Threads, NEW k \in Keys,
           \/ \E at \in Inserting \cup {"unlink"} : Goto(t, at, k)
           \/ Done(t)
           \/ pc' = pc
    PROVE  /\ DOMAIN pc' \subseteq Threads
           /\ \A x \in DOMAIN pc' :
                pc'[x] \in [at : Inserting \cup {"unlink"}, key : Keys]
<1>1. ASSUME NEW at \in Inserting \cup {"unlink"}, Goto(t, at, k)
      PROVE  /\ DOMAIN pc' \subseteq Threads
             /\ \A x \in DOMAIN pc' :
                  pc'[x] \in [at : Inserting \cup {"unlink"}, key : Keys]
  <2>1. [at |-> at, key |-> k] \in [at : Inserting \cup {"unlink"}, key : Keys]
    OBVIOUS
  <2>2. /\ DOMAIN pc' = DOMAIN pc \cup {t} /\ pc'[t] = [at |-> at, key |-> k]
        /\ \A x \in DOMAIN pc \ {t} : pc'[x] = pc[x]
    BY <1>1, GotoPc, ZenonT(40)
  <2>. DEFINE R == [at : Inserting \cup {"unlink"}, key : Keys]
  <2>3. pc'[t] \in R /\ \A x \in DOMAIN pc : pc[x] \in R
    BY <2>1, <2>2 DEF CacheTypeOK
  <2>4. DOMAIN pc \subseteq Threads
    BY DEF CacheTypeOK
  <2>. HIDE DEF R
  <2>5. \A x \in DOMAIN pc' : pc'[x] \in R
    BY <2>2, <2>3
  <2>. QED BY <2>2, <2>4, <2>5 DEF R
<1>2. CASE Done(t)
  BY <1>2, DonePc DEF CacheTypeOK
<1>. QED BY <1>1, <1>2 DEF CacheTypeOK

\* Removing one element of the queue leaves a queue of the other elements.
LEMMA WithoutType ==
    ASSUME NEW s \in Seq(Keys), NEW i \in DOMAIN s
    PROVE  /\ Without(s, i) \in Seq(Keys)
           /\ \A j \in DOMAIN Without(s, i) :
                 \E l \in DOMAIN s : Without(s, i)[j] = s[l]
<1>1. Len(s) \in Nat /\ DOMAIN s = 1..Len(s) /\ i \in 1..Len(s)
      /\ \A l \in 1..Len(s) : s[l] \in Keys
  OBVIOUS
<1>2. Len(s) - 1 \in Nat
  BY <1>1
<1>3. \A j \in 1..(Len(s) - 1) :
         /\ j \in DOMAIN s /\ j + 1 \in DOMAIN s
         /\ Without(s, i)[j] = IF j < i THEN s[j] ELSE s[j + 1]
  BY <1>1, <1>2 DEF Without
<1>4. DOMAIN Without(s, i) = 1..(Len(s) - 1)
  BY DEF Without
<1>5. \A j \in 1..(Len(s) - 1) :
         (IF j < i THEN s[j] ELSE s[j + 1]) \in Keys
  BY <1>1, <1>3
<1>6. Without(s, i) \in [1..(Len(s) - 1) -> Keys]
  BY <1>5 DEF Without
<1>7. Without(s, i) \in Seq(Keys)
  BY <1>2, <1>6
<1>. QED BY <1>3, <1>4, <1>7

-----------------------------------------------------------------------------
(* The steps keep the types.                                               *)

LEMMA CacheTypeStep == CacheTypeOK /\ [CacheNext]_cacheVars => CacheTypeOK'
<1>. SUFFICES ASSUME CacheTypeOK, [CacheNext]_cacheVars PROVE CacheTypeOK'
  OBVIOUS
<1>0. /\ "push" \in Inserting /\ "check" \in Inserting /\ "pop" \in Inserting
      /\ "evict" \in Inserting
  BY DEF Inserting
<1>1. ASSUME NEW t \in Threads, NEW k \in Keys, insert_map(t, k)
      PROVE  CacheTypeOK'
  <2>1. IsFiniteSet(map \cup {k})
    BY FS_AddElement DEF CacheTypeOK
  <2>. QED BY <1>0, <1>1, <2>1, PcType DEF insert_map, CacheTypeOK
<1>2. ASSUME NEW t \in Threads, NEW k \in Keys, remove_map(t, k)
      PROVE  CacheTypeOK'
  <2>1. IsFiniteSet(map \ {k})
    BY FS_RemoveElement DEF CacheTypeOK
  <2>. QED BY <1>2, <2>1, PcType DEF remove_map, CacheTypeOK
<1>3. ASSUME NEW t \in Threads, insert_order(t)
      PROVE  CacheTypeOK'
  <2>1. pc[t].key \in Keys /\ t \in DOMAIN pc
    BY <1>3 DEF insert_order, At, CacheTypeOK
  <2>2. order' \in Seq(Keys)
    BY <1>3, <2>1 DEF insert_order, CacheTypeOK
  <2>. QED BY <1>0, <1>3, <2>1, <2>2, PcType DEF insert_order, CacheTypeOK
<1>4. ASSUME NEW t \in Threads, evict_check(t)
      PROVE  CacheTypeOK'
  <2>1. pc[t].key \in Keys /\ t \in DOMAIN pc
    BY <1>4 DEF evict_check, At, CacheTypeOK
  <2>. QED BY <1>0, <1>4, <2>1, PcType DEF evict_check, CacheTypeOK
<1>5. ASSUME NEW t \in Threads, evict_pop(t)
      PROVE  CacheTypeOK'
  <2>1. CASE order = <<>> /\ Done(t) /\ UNCHANGED order
    BY <1>5, <2>1, DonePc DEF evict_pop, CacheTypeOK
  <2>2. CASE order # <<>> /\ Goto(t, "evict", Head(order)) /\ order' = Tail(order)
    <3>1. Head(order) \in Keys /\ Tail(order) \in Seq(Keys)
      BY <2>2 DEF CacheTypeOK
    <3>. QED BY <1>0, <1>5, <2>2, <3>1, PcType DEF evict_pop, CacheTypeOK
  <2>. QED BY <1>5, <2>1, <2>2 DEF evict_pop
<1>6. ASSUME NEW t \in Threads, evict_map(t)
      PROVE  CacheTypeOK'
  <2>1. pc[t].key \in Keys /\ t \in DOMAIN pc
    BY <1>6 DEF evict_map, At, CacheTypeOK
  <2>2. IsFiniteSet(map \ {pc[t].key}) /\ evictions' \in Nat
    BY <1>6, FS_RemoveElement DEF evict_map, Evicted, CacheTypeOK
  <2>. QED BY <1>0, <1>6, <2>1, <2>2, PcType DEF evict_map, CacheTypeOK
<1>7. ASSUME NEW t \in Threads, remove_order(t)
      PROVE  CacheTypeOK'
  <2>1. order' \in Seq(Keys)
    BY <1>7, WithoutType DEF remove_order, CacheTypeOK
  <2>. QED BY <1>7, <2>1, DonePc DEF remove_order, CacheTypeOK
<1>8. CASE clear
  <2>1. IsFiniteSet({}) /\ Cardinality(map) \in Nat
    BY FS_EmptySet, FS_CardinalityType DEF CacheTypeOK
  <2>2. cleared' \in Nat
    BY <1>8, <2>1 DEF clear, CacheTypeOK
  <2>. QED BY <1>8, <2>1, <2>2 DEF clear, CacheTypeOK
<1>9. CASE UNCHANGED cacheVars
  BY <1>9 DEF cacheVars, CacheTypeOK
<1>. QED BY <1>1, <1>2, <1>3, <1>4, <1>5, <1>6, <1>7, <1>8, <1>9 DEF CacheNext

LEMMA CacheTypeInit == CacheInit => CacheTypeOK
<1>1. IsFiniteSet({})
  BY FS_EmptySet
<1>. QED BY <1>1 DEF CacheInit, CacheTypeOK

\* The cache, the calls in flight and the counters keep their shape.
THEOREM CacheTypeCorrect == CacheSpec => []CacheTypeOK
BY CacheTypeInit, CacheTypeStep, PTL DEF CacheSpec

-----------------------------------------------------------------------------
(* The capacity.                                                           *)

\* A call in flight is still in flight after a step of another thread, and
\* after a step of its own that does not end it.
LEMMA StillInserting ==
    ASSUME NEW t, NEW k, InsertInFlight,
           \/ t \notin DOMAIN pc /\ \E at : Goto(t, at, k)
           \/ t \in DOMAIN pc /\ pc[t].at = "unlink" /\ Done(t)
    PROVE  InsertInFlight'
<1>1. PICK x \in DOMAIN pc : pc[x].at \in Inserting
  BY DEF InsertInFlight
<1>2. x # t
  BY <1>1 DEF Inserting
<1>. QED BY <1>1, <1>2, GotoPc, DonePc DEF InsertInFlight

LEMMA NowInserting ==
    ASSUME NEW t, NEW k, NEW at \in Inserting, Goto(t, at, k)
    PROVE  InsertInFlight'
<1>1. t \in DOMAIN pc' /\ pc'[t].at = at
  BY GotoPc
<1>. QED BY <1>1 DEF InsertInFlight

\* Fewer entries in the queue's reach keep within the capacity.
LEMMA Fewer ==
    ASSUME CacheTypeOK, CacheTypeOK', EvictableWithinCap,
           {k \in map : Queued(k)}' \subseteq {k \in map : Queued(k)},
           InsertInFlight => InsertInFlight'
    PROVE  EvictableWithinCap'
<1>. DEFINE A == {k \in map : Queued(k)}
            B == {k \in map : Queued(k)}'
<1>1. IsFiniteSet(A)
  <2>1. A \subseteq map /\ IsFiniteSet(map)
    BY DEF CacheTypeOK
  <2>. QED BY <2>1, FS_Subset
<1>2. B \subseteq A
  OBVIOUS
<1>. HIDE DEF A, B
<1>3. Cardinality(B) <= Cardinality(A) /\ Cardinality(A) \in Nat /\ Cardinality(B) \in Nat
  BY <1>1, <1>2, FS_Subset, FS_CardinalityType
<1>4. Bounded /\ ~InsertInFlight => Cardinality(A) <= Cap
  BY DEF EvictableWithinCap, A
<1>5. Bounded /\ ~InsertInFlight' => Cardinality(B) <= Cap
  BY <1>3, <1>4, CacheAssumption DEF CacheAssumption
<1>. QED BY <1>5 DEF EvictableWithinCap, B

LEMMA EvictableStep ==
    CacheTypeOK /\ CacheTypeOK' /\ EvictableWithinCap /\ [CacheNext]_cacheVars => EvictableWithinCap'
<1>. SUFFICES ASSUME CacheTypeOK, CacheTypeOK', EvictableWithinCap, [CacheNext]_cacheVars
              PROVE  EvictableWithinCap'
  OBVIOUS
<1>0. /\ "push" \in Inserting /\ "check" \in Inserting /\ "pop" \in Inserting
      /\ "evict" \in Inserting
  BY DEF Inserting
<1>1. ASSUME NEW t \in Threads, NEW k \in Keys, insert_map(t, k)
      PROVE  EvictableWithinCap'
  BY <1>0, <1>1, NowInserting DEF insert_map, EvictableWithinCap
<1>2. ASSUME NEW t \in Threads, NEW k \in Keys, remove_map(t, k)
      PROVE  EvictableWithinCap'
  <2>1. {x \in map : Queued(x)}' \subseteq {x \in map : Queued(x)}
    BY <1>2 DEF remove_map, Queued
  <2>2. InsertInFlight => InsertInFlight'
    BY <1>2, StillInserting DEF remove_map
  <2>. QED BY <2>1, <2>2, Fewer
<1>3. ASSUME NEW t \in Threads, insert_order(t)
      PROVE  EvictableWithinCap'
  BY <1>0, <1>3, NowInserting DEF insert_order, EvictableWithinCap
<1>4. ASSUME NEW t \in Threads, evict_check(t)
      PROVE  EvictableWithinCap'
  <2>1. CASE ~Fits
    BY <1>0, <1>4, <2>1, NowInserting DEF evict_check, EvictableWithinCap
  <2>2. CASE Fits
    <3>. DEFINE B == {x \in map : Queued(x)}'
    <3>1. B \subseteq map /\ IsFiniteSet(map)
      BY <1>4 DEF evict_check, CacheTypeOK
    <3>. HIDE DEF B
    <3>2. Cardinality(B) <= Cardinality(map) /\ Cardinality(map) \in Nat
          /\ Cardinality(B) \in Nat
      BY <3>1, FS_Subset, FS_CardinalityType
    <3>3. Cardinality(B) <= Cap
      BY <2>2, <3>2, CacheAssumption DEF CacheAssumption, Fits
    <3>. QED BY <3>3 DEF EvictableWithinCap, B
  <2>. QED BY <2>1, <2>2
<1>5. ASSUME NEW t \in Threads, evict_pop(t)
      PROVE  EvictableWithinCap'
  <2>1. CASE Goto(t, "evict", Head(order))
    BY <1>0, <2>1, NowInserting DEF EvictableWithinCap
  <2>2. CASE order = <<>> /\ Done(t) /\ UNCHANGED order
    <3>1. {x \in map : Queued(x)}' = {}
      BY <2>2 DEF Queued
    <3>2. Cardinality({x \in map : Queued(x)}') = 0
      BY <3>1, FS_EmptySet
    <3>. QED BY <3>2, CacheAssumption DEF CacheAssumption, EvictableWithinCap
  <2>. QED BY <1>5, <2>1, <2>2 DEF evict_pop
<1>6. ASSUME NEW t \in Threads, evict_map(t)
      PROVE  EvictableWithinCap'
  BY <1>0, <1>6, NowInserting DEF evict_map, EvictableWithinCap
<1>7. ASSUME NEW t \in Threads, remove_order(t)
      PROVE  EvictableWithinCap'
  <2>1. \A x : Queued(x)' => Queued(x)
    <3>1. CASE UNCHANGED order
      BY <3>1 DEF Queued
    <3>2. ASSUME NEW i \in DOMAIN order, order' = Without(order, i)
          PROVE  \A x : Queued(x)' => Queued(x)
      BY <3>2, WithoutType DEF Queued, CacheTypeOK
    <3>. QED BY <1>7, <3>1, <3>2 DEF remove_order
  <2>2. map' = map
    BY <1>7 DEF remove_order
  <2>3. {x \in map : Queued(x)}' \subseteq {x \in map : Queued(x)}
    BY <2>1, <2>2
  <2>4. InsertInFlight => InsertInFlight'
    BY <1>7, StillInserting DEF remove_order, At
  <2>. QED BY <2>3, <2>4, Fewer
<1>8. CASE clear
  <2>1. {x \in map : Queued(x)}' = {}
    BY <1>8 DEF clear
  <2>2. Cardinality({x \in map : Queued(x)}') = 0
    BY <2>1, FS_EmptySet
  <2>. QED BY <2>2, CacheAssumption DEF CacheAssumption, EvictableWithinCap
<1>9. CASE UNCHANGED cacheVars
  BY <1>9 DEF cacheVars, EvictableWithinCap, Queued, InsertInFlight
<1>. QED BY <1>1, <1>2, <1>3, <1>4, <1>5, <1>6, <1>7, <1>8, <1>9 DEF CacheNext

\* With no insertion under way, the entries that can be evicted keep within
\* the capacity.
THEOREM EvictableBounded == CacheSpec => []EvictableWithinCap
<1>1. CacheInit => EvictableWithinCap
  <2>. SUFFICES ASSUME CacheInit PROVE EvictableWithinCap
    OBVIOUS
  <2>1. {k \in map : Queued(k)} = {}
    BY DEF CacheInit
  <2>2. Cardinality({k \in map : Queued(k)}) = 0
    BY <2>1, FS_EmptySet
  <2>. QED BY <2>2, CacheAssumption DEF CacheAssumption, EvictableWithinCap
<1>. QED BY <1>1, CacheTypeCorrect, EvictableStep, PTL DEF CacheSpec
-----------------------------------------------------------------------------
(* The capacity until the first removal.                                   *)

\* While no key has been removed, every entry is tracked by the queue or by a
\* thread, and the capacity holds at rest.
QuietInv ==
    /\ CacheTypeOK
    /\ \A t \in DOMAIN pc : pc[t].at \in Inserting
    /\ Tracked
    /\ CapAtRest

\* Who tracks an entry still does after a step of another thread.
LEMMA StillTracked ==
    ASSUME CacheTypeOK, Tracked, NEW t,
           \A x \in DOMAIN pc \ {t} : x \in DOMAIN pc' /\ pc'[x] = pc[x],
           NEW k \in map, t \in DOMAIN pc => pc[t].key # k \/ pc[t].at \notin {"push", "evict"},
           Queued(k) => Queued(k)'
    PROVE  \/ Queued(k)'
           \/ \E x \in DOMAIN pc' : pc'[x].key = k /\ pc'[x].at \in {"push", "evict"}
<1>1. CASE Queued(k)
  BY <1>1
<1>2. CASE ~Queued(k)
  <2>1. PICK x \in DOMAIN pc : pc[x].key = k /\ pc[x].at \in {"push", "evict"}
    BY <1>2 DEF Tracked
  <2>2. x # t
    BY <2>1
  <2>. QED BY <2>1, <2>2
<1>. QED BY <1>1, <1>2

\* A thread that goes on inserting leaves the capacity to be settled later.
LEMMA GoesOn ==
    ASSUME \A x \in DOMAIN pc : pc[x].at \in Inserting,
           NEW t, NEW k, NEW at \in Inserting, Goto(t, at, k)
    PROVE  CapAtRest' /\ \A x \in DOMAIN pc' : pc'[x].at \in Inserting
<1>1. InsertInFlight'
  BY NowInserting
<1>2. /\ DOMAIN pc' = DOMAIN pc \cup {t} /\ pc'[t].at = at
      /\ \A x \in DOMAIN pc \ {t} : pc'[x] = pc[x]
  BY GotoPc
<1>3. \A x \in DOMAIN pc' : pc'[x].at \in Inserting
  BY <1>2
<1>. QED BY <1>1, <1>3 DEF CapAtRest

LEMMA QuietStep ==
    ASSUME removed' = 0, QuietInv, CacheTypeOK', [CacheNext]_cacheVars
    PROVE  QuietInv'
<1>0. /\ "push" \in Inserting /\ "check" \in Inserting /\ "pop" \in Inserting
      /\ "evict" \in Inserting /\ "unlink" \notin Inserting
  BY DEF Inserting
<1>. DEFINE AllInserting == \A t \in DOMAIN pc : pc[t].at \in Inserting
<1>1. ASSUME NEW t \in Threads, NEW k \in Keys, insert_map(t, k)
      PROVE  QuietInv'
  <2>1. /\ Goto(t, "push", k) /\ map' = map \cup {k} /\ order' = order
        /\ t \notin DOMAIN pc
    BY <1>1 DEF insert_map
  <2>2. CapAtRest' /\ AllInserting'
    BY <1>0, <2>1, GoesOn DEF QuietInv
  <2>3. \A x \in DOMAIN pc \ {t} : x \in DOMAIN pc' /\ pc'[x] = pc[x]
    BY <2>1, GotoPc
  <2>5. t \in DOMAIN pc' /\ pc'[t].key = k /\ pc'[t].at = "push"
    <3>1. Goto(t, "push", k)
      BY <2>1
    <3>. QED BY <3>1, GotoPc
  <2>4. Tracked'
    <3>. SUFFICES ASSUME NEW x \in map'
                  PROVE  \/ Queued(x)'
                         \/ \E y \in DOMAIN pc' : pc'[y].key = x /\ pc'[y].at \in {"push", "evict"}
      BY DEF Tracked
    <3>1. CASE x = k
      BY <2>5, <3>1
    <3>2. CASE x \in map
      BY <2>1, <2>3, <3>2, StillTracked DEF QuietInv, Queued
    <3>. QED BY <2>1, <3>1, <3>2
  <2>. QED BY <2>2, <2>4 DEF QuietInv
<1>2. ASSUME NEW t \in Threads, insert_order(t)
      PROVE  QuietInv'
  <2>1. /\ order' = Append(order, pc[t].key) /\ map' = map /\ t \in DOMAIN pc
        /\ IF Bounded THEN Goto(t, "check", pc[t].key) ELSE Done(t)
    BY <1>2 DEF insert_order, At
  <2>2. CapAtRest' /\ AllInserting'
    <3>1. CASE Bounded
      BY <1>0, <2>1, <3>1, GoesOn DEF QuietInv
    <3>2. CASE ~Bounded
      BY <2>1, <3>2, DonePc DEF CapAtRest, QuietInv
    <3>. QED BY <3>1, <3>2
  <2>3. \A x \in DOMAIN pc \ {t} : x \in DOMAIN pc' /\ pc'[x] = pc[x]
    BY <2>1, GotoPc, DonePc
  <2>4. order \in Seq(Keys) /\ pc[t].key \in Keys
    BY <2>1 DEF QuietInv, CacheTypeOK
  <2>5. /\ \E i \in DOMAIN order' : order'[i] = pc[t].key
        /\ \A x : Queued(x) => Queued(x)'
    <3>1. /\ DOMAIN order' = DOMAIN order \cup {Len(order) + 1}
          /\ order'[Len(order) + 1] = pc[t].key
          /\ \A i \in DOMAIN order : order'[i] = order[i]
      BY <2>1, <2>4
    <3>. QED BY <3>1 DEF Queued
  <2>6. Tracked'
    <3>. SUFFICES ASSUME NEW x \in map
                  PROVE  \/ Queued(x)'
                         \/ \E y \in DOMAIN pc' : pc'[y].key = x /\ pc'[y].at \in {"push", "evict"}
      BY <2>1 DEF Tracked
    <3>1. CASE x = pc[t].key
      BY <2>5, <3>1 DEF Queued
    <3>2. CASE x # pc[t].key
      BY <2>3, <2>5, <3>2, StillTracked DEF QuietInv
    <3>. QED BY <3>1, <3>2
  <2>. QED BY <2>2, <2>6 DEF QuietInv
<1>3. ASSUME NEW t \in Threads, evict_check(t)
      PROVE  QuietInv'
  <2>1. /\ UNCHANGED <<map, order>> /\ t \in DOMAIN pc /\ pc[t].at = "check"
        /\ IF Fits THEN Done(t) ELSE Goto(t, "pop", pc[t].key)
    BY <1>3 DEF evict_check, At
  <2>2. CapAtRest' /\ AllInserting'
    <3>1. CASE Fits
      BY <2>1, <3>1, DonePc DEF Fits, CapAtRest, QuietInv
    <3>2. CASE ~Fits
      BY <1>0, <2>1, <3>2, GoesOn DEF QuietInv
    <3>. QED BY <3>1, <3>2
  <2>3. \A x \in DOMAIN pc \ {t} : x \in DOMAIN pc' /\ pc'[x] = pc[x]
    BY <2>1, GotoPc, DonePc
  <2>4. Tracked'
    <3>. SUFFICES ASSUME NEW x \in map
                  PROVE  \/ Queued(x)'
                         \/ \E y \in DOMAIN pc' : pc'[y].key = x /\ pc'[y].at \in {"push", "evict"}
      BY <2>1 DEF Tracked
    <3>. QED BY <2>1, <2>3, StillTracked DEF QuietInv, Queued
  <2>. QED BY <2>2, <2>4 DEF QuietInv
<1>4. ASSUME NEW t \in Threads, evict_pop(t)
      PROVE  QuietInv'
  <2>1. map' = map /\ t \in DOMAIN pc /\ pc[t].at = "pop"
    BY <1>4 DEF evict_pop, At
  <2>2. CASE order = <<>> /\ Done(t) /\ UNCHANGED order
    <3>1. \A x \in DOMAIN pc \ {t} : x \in DOMAIN pc' /\ pc'[x] = pc[x]
      BY <2>2, DonePc
    <3>2. AllInserting'
      BY <2>2, DonePc DEF QuietInv
    <3>3. \A x \in map : \/ Queued(x)'
                         \/ \E y \in DOMAIN pc' : pc'[y].key = x /\ pc'[y].at \in {"push", "evict"}
      BY <2>1, <2>2, <3>1, StillTracked DEF QuietInv, Queued
    <3>4. Tracked'
      BY <2>1, <3>3 DEF Tracked
    <3>5. CapAtRest'
      <4>1. CASE map = {}
        <5>1. Cardinality(map') = 0
          BY <2>1, <4>1, FS_EmptySet
        <5>. QED BY <5>1, CacheAssumption DEF CacheAssumption, CapAtRest
      <4>2. CASE map # {}
        <5>1. PICK x \in map : TRUE
          BY <4>2
        <5>2. ~Queued(x)'
          BY <2>2 DEF Queued
        <5>3. PICK y \in DOMAIN pc' : pc'[y].at \in {"push", "evict"}
          BY <3>3, <5>2
        <5>4. InsertInFlight'
          BY <1>0, <5>3 DEF InsertInFlight
        <5>. QED BY <5>4 DEF CapAtRest
      <4>. QED BY <4>1, <4>2
    <3>. QED BY <3>2, <3>4, <3>5 DEF QuietInv
  <2>3. CASE order # <<>> /\ Goto(t, "evict", Head(order)) /\ order' = Tail(order)
    <3>1. CapAtRest' /\ AllInserting'
      BY <1>0, <2>3, GoesOn DEF QuietInv
    <3>2. \A x \in DOMAIN pc \ {t} : x \in DOMAIN pc' /\ pc'[x] = pc[x]
      BY <2>3, GotoPc
    <3>3. t \in DOMAIN pc' /\ pc'[t].key = Head(order) /\ pc'[t].at = "evict"
      BY <2>3, GotoPc
    <3>4. order \in Seq(Keys)
      BY DEF QuietInv, CacheTypeOK
    <3>5. \A x : Queued(x) /\ x # Head(order) => Queued(x)'
      <4>. SUFFICES ASSUME NEW x, NEW i \in DOMAIN order, order[i] = x, x # Head(order)
                    PROVE  \E j \in DOMAIN order' : order'[j] = x
        BY DEF Queued
      <4>1. i \in 2..Len(order)
        BY <2>3, <3>4
      <4>2. i - 1 \in DOMAIN order' /\ order'[i - 1] = order[i]
        BY <2>3, <3>4, <4>1
      <4>. QED BY <4>2
    <3>6. Tracked'
      <4>. SUFFICES ASSUME NEW x \in map
                    PROVE  \/ Queued(x)'
                           \/ \E y \in DOMAIN pc' : pc'[y].key = x /\ pc'[y].at \in {"push", "evict"}
        BY <2>1 DEF Tracked
      <4>1. CASE x = Head(order)
        BY <3>3, <4>1
      <4>2. CASE x # Head(order)
        BY <2>1, <3>2, <3>5, <4>2, StillTracked DEF QuietInv
      <4>. QED BY <4>1, <4>2
    <3>. QED BY <3>1, <3>6 DEF QuietInv
  <2>. QED BY <1>4, <2>2, <2>3 DEF evict_pop
<1>5. ASSUME NEW t \in Threads, evict_map(t)
      PROVE  QuietInv'
  <2>1. /\ map' = map \ {pc[t].key} /\ order' = order /\ t \in DOMAIN pc
        /\ Goto(t, "check", pc[t].key)
    BY <1>5 DEF evict_map, At
  <2>2. CapAtRest' /\ AllInserting'
    BY <1>0, <2>1, GoesOn DEF QuietInv
  <2>3. \A x \in DOMAIN pc \ {t} : x \in DOMAIN pc' /\ pc'[x] = pc[x]
    BY <2>1, GotoPc
  <2>4. Tracked'
    <3>. SUFFICES ASSUME NEW x \in map, x # pc[t].key
                  PROVE  \/ Queued(x)'
                         \/ \E y \in DOMAIN pc' : pc'[y].key = x /\ pc'[y].at \in {"push", "evict"}
      BY <2>1 DEF Tracked
    <3>. QED BY <2>1, <2>3, StillTracked DEF QuietInv, Queued
  <2>. QED BY <2>2, <2>4 DEF QuietInv
<1>6. ASSUME NEW t \in Threads, remove_order(t)
      PROVE  QuietInv'
  BY <1>0, <1>6 DEF remove_order, At, QuietInv
<1>7. ASSUME NEW t \in Threads, NEW k \in Keys, remove_map(t, k)
      PROVE  QuietInv'
  BY <1>7 DEF remove_map, QuietInv, CacheTypeOK
<1>8. CASE clear
  <2>1. Cardinality(map') = 0
    BY <1>8, FS_EmptySet DEF clear
  <2>2. CapAtRest'
    BY <2>1, CacheAssumption DEF CacheAssumption, CapAtRest
  <2>3. map' = {} /\ pc' = pc
    BY <1>8 DEF clear
  <2>. QED BY <2>2, <2>3 DEF QuietInv, Tracked
<1>9. CASE UNCHANGED cacheVars
  BY <1>9 DEF cacheVars, QuietInv, Tracked, CapAtRest, Queued, InsertInFlight
<1>. QED BY <1>1, <1>2, <1>3, <1>4, <1>5, <1>6, <1>7, <1>8, <1>9 DEF CacheNext

\* Until the first removal (every deployment that destroys no key) the cache
\* holds no more entries than its capacity whenever no insertion is under
\* way, and every entry can still be evicted.
THEOREM CapHolds == CacheSpec => [](CapUntilRemoval /\ TrackedUntilRemoval)
<1>. DEFINE J == removed = 0 => QuietInv
<1>1. CacheInit => J
  <2>. SUFFICES ASSUME CacheInit PROVE QuietInv
    OBVIOUS
  <2>1. Cardinality(map) = 0 /\ map = {} /\ DOMAIN pc = {}
    BY FS_EmptySet DEF CacheInit
  <2>. QED BY <2>1, CacheTypeInit, CacheAssumption
       DEF CacheAssumption, QuietInv, Tracked, CapAtRest
<1>2. CacheTypeOK /\ J /\ CacheTypeOK' /\ [CacheNext]_cacheVars => J'
  <2>. SUFFICES ASSUME CacheTypeOK, J, CacheTypeOK', [CacheNext]_cacheVars, removed' = 0
                PROVE  QuietInv'
    OBVIOUS
  <2>1. removed' = removed \/ removed' = removed + 1
    BY DEF CacheNext, cacheVars, insert_map, insert_order, evict_check, evict_pop, evict_map,
           remove_map, remove_order, clear
  <2>2. removed = 0
    BY <2>1 DEF CacheTypeOK
  <2>. QED BY <2>2, QuietStep
<1>3. J => CapUntilRemoval /\ TrackedUntilRemoval
  BY DEF QuietInv, CapUntilRemoval, TrackedUntilRemoval
<1>. QED BY <1>1, <1>2, <1>3, CacheTypeCorrect, PTL DEF CacheSpec
-----------------------------------------------------------------------------
(* The counter.                                                            *)

LEMMA CountedStep == CacheTypeOK /\ EvictionsCounted /\ [CacheNext]_cacheVars => EvictionsCounted'
<1>. SUFFICES ASSUME CacheTypeOK, EvictionsCounted, [CacheNext]_cacheVars PROVE EvictionsCounted'
  OBVIOUS
<1>0. /\ evictions \in Nat /\ added \in Nat /\ removed \in Nat /\ cleared \in Nat
      /\ IsFiniteSet(map)
      /\ Cardinality(map) \in Nat /\ Cardinality(map) = added - evictions - removed - cleared
  BY FS_CardinalityType DEF CacheTypeOK, EvictionsCounted
<1>1. ASSUME NEW t \in Threads, NEW k \in Keys, insert_map(t, k)
      PROVE  EvictionsCounted'
  <2>1. /\ k \in map => Cardinality(map') = Cardinality(map)
        /\ k \notin map => Cardinality(map') = Cardinality(map) + 1
    BY <1>0, <1>1, FS_AddElement DEF insert_map
  <2>. QED BY <1>0, <1>1, <2>1 DEF insert_map, EvictionsCounted
<1>2. ASSUME NEW t \in Threads, NEW k \in Keys, remove_map(t, k)
      PROVE  EvictionsCounted'
  <2>1. Cardinality(map') = Cardinality(map) - 1
    BY <1>0, <1>2, FS_RemoveElement DEF remove_map
  <2>. QED BY <1>0, <1>2, <2>1 DEF remove_map, EvictionsCounted
<1>3. ASSUME NEW t \in Threads, evict_map(t)
      PROVE  EvictionsCounted'
  <2>0. map' = map \ {pc[t].key}
    BY <1>3 DEF evict_map
  <2>1. /\ pc[t].key \in map => Cardinality(map') = Cardinality(map) - 1
        /\ pc[t].key \notin map => map' = map
    <3>1. ASSUME pc[t].key \in map PROVE Cardinality(map') = Cardinality(map) - 1
      BY <1>0, <2>0, <3>1, FS_RemoveElement
    <3>2. ASSUME pc[t].key \notin map PROVE map' = map
      BY <2>0, <3>2
    <3>. QED BY <3>1, <3>2
  <2>2. evictions' = evictions + Evicted(pc[t].key) /\ added' = added
        /\ removed' = removed /\ cleared' = cleared
    BY <1>3 DEF evict_map
  <2>3. CASE pc[t].key \in map
    BY <1>0, <2>1, <2>2, <2>3 DEF Evicted, EvictionsCounted
  <2>4. CASE pc[t].key \notin map
    BY <1>0, <2>1, <2>2, <2>4 DEF Evicted, EvictionsCounted
  <2>. QED BY <2>3, <2>4
<1>4. CASE clear
  <2>1. Cardinality(map') = 0
    BY <1>4, FS_EmptySet DEF clear
  <2>. QED BY <1>0, <1>4, <2>1 DEF clear, EvictionsCounted
<1>5. ASSUME UNCHANGED <<map, evictions, added, removed, cleared>>
      PROVE  EvictionsCounted'
  BY <1>5 DEF EvictionsCounted
<1>6. ASSUME NEW t \in Threads,
             insert_order(t) \/ evict_check(t) \/ evict_pop(t) \/ remove_order(t)
      PROVE  EvictionsCounted'
  BY <1>5, <1>6 DEF insert_order, evict_check, evict_pop, remove_order
<1>7. CASE UNCHANGED cacheVars
  BY <1>5, <1>7 DEF cacheVars
<1>. QED BY <1>1, <1>2, <1>3, <1>4, <1>6, <1>7 DEF CacheNext

\* evictions_total counts every eviction exactly once.
THEOREM EveryEvictionCounted == CacheSpec => []EvictionsCounted
<1>1. CacheInit => EvictionsCounted
  BY FS_EmptySet DEF CacheInit, EvictionsCounted
<1>. QED BY <1>1, CacheTypeCorrect, CountedStep, PTL DEF CacheSpec

\* The cache is sound: the capacity holds for what the queue knows, which is
\* every entry until the first removal (bounded_cache.rs).
THEOREM CacheIsSound == CacheSpec => []CacheSound
BY EvictableBounded, CapHolds, PTL DEF CacheSound

=============================================================================
