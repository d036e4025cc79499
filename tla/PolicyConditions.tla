-------------------------- MODULE PolicyConditions --------------------------
(***************************************************************************)
(* How the PBAC engine, crates/kms-policy/src/engine.rs, decides whether a *)
(* policy is about a request: its globs (and the ones of kms-core's        *)
(* policy.rs), its condition tree and its ranges of times.  One question   *)
(* is asked and answered; the questions are what is enumerated.            *)
(*                                                                         *)
(* A glob is the sequence of its parts, as split('*') returns it; a text   *)
(* and a part are sequences of characters.                                 *)
(***************************************************************************)
EXTENDS Integers, Sequences, SequencesExt

CONSTANTS
    Globs,              \* sequences of parts
    Texts,              \* subjects, tenants, resources
    SecondsPerMinute, MinutesPerHour, HoursPerDay,
    Conditions,         \* condition trees
    Attributes,         \* names of attributes
    AttributeValues     \* texts they may have, none of them empty

ASSUME ConditionsAssumption ==
    /\ {SecondsPerMinute, MinutesPerHour, HoursPerDay} \subseteq Nat \ {0}
    /\ \A g \in Globs : Len(g) > 0

VARIABLES question, decision
conditionVars == <<question, decision>>

NoQuestion == [about |-> "nothing"]
ConditionsInit == question = NoQuestion /\ decision = "none"

-----------------------------------------------------------------------------
(* Globs.                                                                  *)

Star(g) == g = <<<<>>, <<>>>>
StartsWithStar(g) == Len(g) > 1 /\ Head(g) = <<>>
EndsWithStar(g) == Len(g) > 1 /\ Last(g) = <<>>

OccursAt(part, text, i) == i + Len(part) <= Len(text) /\ SubSeq(text, i + 1, i + Len(part)) = part
NotFound == -1
\* text[pos..].find(part), as an index into the text.
find(part, text, pos) ==
    LET at == {i \in pos..Len(text) : OccursAt(part, text, i)}
    IN  IF at = {} THEN NotFound ELSE CHOOSE i \in at : \A j \in at : i <= j

\* Where the part ends when it is found at the first place after pos.
After(text, pos, part) ==
    IF pos = NotFound \/ part = <<>> THEN pos
    ELSE LET i == find(part, text, pos) IN IF i = NotFound THEN NotFound ELSE i + Len(part)
AfterAll(text, pos, parts) ==
    FoldLeft(LAMBDA p, part : After(text, p, part), pos, parts)
Ends_Anywhere(g, text, pos) == pos # NotFound   \* mutant: the text may go on after the last part
Ends(g, text, pos) == pos # NotFound /\ (EndsWithStar(g) \/ pos = Len(text))
YesNo(b) == IF b THEN "yes" ELSE "no"

\* The engine's: after a leading star the first part is looked for only beyond
\* its own length, and a text that is shorter than that is no slice.
glob_match(g, text) ==
    LET literals == SelectSeq(g, LAMBDA p : p # <<>>)
        first == IF StartsWithStar(g) /\ literals # <<>> THEN Head(literals) ELSE Head(g)
        from == CASE ~StartsWithStar(g) -> IF OccursAt(first, text, 0) THEN Len(first) ELSE NotFound
                  [] first = <<>> -> 0
                  [] OTHER -> find(first, text, Len(first))
    IN  CASE Star(g) -> "yes"
          [] ~Star(g) /\ StartsWithStar(g) /\ Len(first) > Len(text) -> "panic"
          [] OTHER -> YesNo(Ends(g, text, AfterAll(text, from, Tail(g))))

\* kms-core's, of Policy::matches.
core_glob_match(g, text) ==
    LET anchored == Head(g) = <<>> \/ find(Head(g), text, 0) \in {0, NotFound}
    IN  YesNo(Star(g) \/ (anchored /\ Ends(g, text, AfterAll(text, 0, g))))

-----------------------------------------------------------------------------
(* Times: "HH:MM" is a pair of numbers, or nothing of that form.           *)

Malformed == <<>>
Day == SecondsPerMinute * MinutesPerHour * HoursPerDay
parse_time(time) == IF time # Malformed /\ time[1] < HoursPerDay /\ time[2] < MinutesPerHour
                    THEN time[1] * MinutesPerHour + time[2] ELSE NotFound
MinuteOf(now) ==
    LET hours == (now % Day) \div (SecondsPerMinute * MinutesPerHour)
        minutes == (now % (SecondsPerMinute * MinutesPerHour)) \div SecondsPerMinute
    IN  hours * MinutesPerHour + minutes
evaluate_time_range_SameDay(start, end, now) ==   \* mutant: no range goes over midnight
    /\ NotFound \notin {parse_time(start), parse_time(end)}
    /\ MinuteOf(now) \in parse_time(start)..parse_time(end)
evaluate_time_range(start, end, now) ==
    LET s == parse_time(start)
        e == parse_time(end)
        m == MinuteOf(now)
    IN  /\ s # NotFound /\ e # NotFound
        /\ IF s <= e THEN m >= s /\ m <= e ELSE m >= s \/ m <= e

-----------------------------------------------------------------------------
(* Conditions.  A context gives some attributes a value: a text, or a      *)
(* number (an instant), and then no text.                                  *)

NoText == ""
get_str(ctx, a) == IF a \in DOMAIN ctx THEN ctx[a].text ELSE NoText
get_i64(ctx, a) == IF a \in DOMAIN ctx THEN ctx[a].number ELSE NotFound

RECURSIVE evaluate_condition(_, _, _)
evaluate_condition(c, ctx, now) ==
    CASE c.operator = "always" -> TRUE
      [] c.operator = "eq" -> get_str(ctx, c.attribute) = c.value
      [] c.operator = "in" -> get_str(ctx, c.attribute) \in c.values
      [] c.operator = "and" -> \A x \in c.args : evaluate_condition(x, ctx, now)
      [] c.operator = "or" -> \E x \in c.args : evaluate_condition(x, ctx, now)
      [] c.operator \in {"time_range", "time_between"} -> evaluate_time_range(c.start, c.end, now)
      [] c.operator = "not_expired" -> get_i64(ctx, c.attribute) > now
      [] OTHER -> FALSE      \* "never", an operator it does not know, a missing argument

-----------------------------------------------------------------------------

Times == {Malformed} \cup ((0..HoursPerDay) \X (0..MinutesPerHour))
Contexts ==
    LET values == [text : AttributeValues, number : {NotFound}] \cup [text : {NoText}, number : {1}]
    IN  UNION {[as -> values] : as \in SUBSET Attributes}

ask_glob(g, t) ==
    /\ question' = [about |-> "glob", glob |-> g, text |-> t]
    /\ decision' = [engine |-> glob_match(g, t), core |-> core_glob_match(g, t)]
ask_time(s, e, now) ==
    /\ question' = [about |-> "time", start |-> s, end |-> e, now |-> now]
    /\ decision' = evaluate_time_range(s, e, now)
ask_condition(c, ctx, now) ==
    /\ question' = [about |-> "condition", condition |-> c, ctx |-> ctx, now |-> now]
    /\ decision' = evaluate_condition(c, ctx, now)

ConditionsNext ==
    /\ question = NoQuestion
    /\ \/ \E g \in Globs, t \in Texts : ask_glob(g, t)
       \/ \E s, e \in Times, now \in 0..(2 * Day) : ask_time(s, e, now)
       \/ \E c \in Conditions, ctx \in Contexts, now \in 0..1 : ask_condition(c, ctx, now)

-----------------------------------------------------------------------------
(* Properties.                                                             *)

\* What a glob means: its parts lie in the text one after the other, the first
\* at its beginning and the last at its end.
Denotes(g, text) ==
    \E f \in [DOMAIN g -> 0..Len(text)] :
      /\ f[1] = 0
      /\ \A i \in DOMAIN g : OccursAt(g[i], text, f[i])
      /\ \A i \in 1..(Len(g) - 1) : f[i] + Len(g[i]) <= f[i + 1]
      /\ f[Len(g)] + Len(Last(g)) = Len(text)

\* Neither matcher finds a text a glob does not mean.  kms-core's finds every
\* text that a glob without a star, or with one at its end, means; the
\* engine's does so when there is no star at the beginning either, and
\* otherwise as long as the first part is not near the text's beginning: it
\* then answers no, or fails when the text is shorter than that part.
GlobsRight ==
    question.about = "glob" =>
      LET g == question.glob
          means == Denotes(g, question.text)
          greedy == Len(g) = 1 \/ EndsWithStar(g)
      IN  /\ "yes" \in {decision.engine, decision.core} => means
          /\ means /\ greedy => decision.core = "yes"
          /\ means /\ greedy /\ (Star(g) \/ ~StartsWithStar(g)) => decision.engine = "yes"
          /\ decision.engine = "panic" => StartsWithStar(g) /\ ~means

\* A range of times is the arc of the day from its start to its end, over
\* midnight when the end comes first, and both ends belong to it.
RangesRight ==
    question.about = "time" =>
      LET Minutes == MinutesPerHour * HoursPerDay
          Valid(t) == t # Malformed /\ t[1] < HoursPerDay /\ t[2] < MinutesPerHour
          Minute(t) == t[1] * MinutesPerHour + t[2]
          now == (question.now \div SecondsPerMinute) % Minutes
          From(m, s) == (m - s) % Minutes
      IN  decision <=> /\ Valid(question.start) /\ Valid(question.end)
                       /\ From(now, Minute(question.start))
                            <= From(Minute(question.end), Minute(question.start))

\* No condition becomes true because an attribute is not known.
UnknownIsFalse ==
    question.about = "condition" /\ decision =>
      LET known == {x \in Contexts : /\ DOMAIN question.ctx \subseteq DOMAIN x
                                     /\ \A a \in DOMAIN question.ctx : x[a] = question.ctx[a]}
      IN  \A x \in known : evaluate_condition(question.condition, x, question.now)

\* A policy is applied only to what its globs, its times and its condition say.
ConditionsSound == GlobsRight /\ RangesRight /\ UnknownIsFalse

=============================================================================
