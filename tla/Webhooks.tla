------------------------------ MODULE Webhooks ------------------------------
(***************************************************************************)
(* WebhookManager and WebhookClient, crates/kms-core/src/webhook.rs: a     *)
(* broadcast spawns one task for every webhook whose filter matches the    *)
(* event, a task posts the event until an answer says success or its       *)
(* retries are used up, and the broadcast collects what the tasks return.  *)
(* Several broadcasts may be at it at once; nothing of them is persisted.  *)
(***************************************************************************)
EXTENDS Naturals, FiniteSets

CONSTANTS
    Hooks,             \* webhooks
    FilterOf,          \* hook -> EventFilter: [include, exclude, actors, resources]
    Events,            \* events: [type, actor, resource], the resource possibly NoResource
    NoResource,
    MaxRetries         \* WebhookConfig.max_retries

ASSUME WebhooksAssumption == MaxRetries \in Nat

VARIABLES
    registered,    \* WebhookManager.clients
    sending,       \* event -> its broadcast: [at, deliveries]
    task,          \* event -> hook -> its task
    posted,        \* event -> hook -> posts that reached the endpoint (history)
    agreed       \* event -> hook -> posts the endpoint answered with success (history)

webhookVars == <<registered, sending, task, posted, agreed>>

NoTask == [at |-> "none", attempt |-> 0]
Delivery(h, status, attempts) == [hook |-> h, status |-> status, attempts |-> attempts]

WebhooksInit ==
    /\ registered = {}
    /\ sending = [e \in Events |-> [at |-> "not sent", deliveries |-> {}]]
    /\ task = [e \in Events |-> [h \in Hooks |-> NoTask]]
    /\ posted = [e \in Events |-> [h \in Hooks |-> 0]]
    /\ agreed = [e \in Events |-> [h \in Hooks |-> 0]]

\* EventFilter::matches; an empty set asks for nothing.
matches(f, e) ==
    /\ f.include = {} \/ e.type \in f.include
    /\ e.type \notin f.exclude
    /\ f.actors = {} \/ e.actor \in f.actors
    /\ f.resources = {} \/ e.resource \in f.resources \ {NoResource}
should_send(h, e) == matches(FilterOf[h], e)

\* register takes the manager exclusively: before any broadcast.
register_hook(h) ==
    /\ \A e \in Events : sending[e].at # "running"
    /\ registered' = registered \cup {h}
    /\ UNCHANGED <<sending, task, posted, agreed>>

\* broadcast, first half: the tasks.
broadcast(e) ==
    /\ sending[e].at = "not sent"
    /\ sending' = [sending EXCEPT ![e].at = "running"]
    /\ task' = [task EXCEPT ![e] = [h \in Hooks |-> IF h \in registered /\ should_send(h, e)
                                                    THEN [at |-> "post", attempt |-> 0] ELSE NoTask]]
    /\ UNCHANGED <<registered, posted, agreed>>

\* deliver: the post reaches the endpoint or not, and its answer (a success or
\* another status) is received or not; then deliver_with_retry decides.
GivesUp_Late(attempt) == attempt > MaxRetries   \* mutant: one attempt more
GivesUp(attempt) == attempt >= MaxRetries
deliver(e, h) ==
    /\ task[e][h].at = "post"
    /\ \E outcome \in {"unreached", "refused", "answer lost", "success"} :
         /\ posted' = IF outcome = "unreached" THEN posted ELSE [posted EXCEPT ![e][h] = @ + 1]
         /\ agreed' = IF outcome \in {"answer lost", "success"} THEN [agreed EXCEPT ![e][h] = @ + 1] ELSE agreed
         /\ task' = [task EXCEPT ![e][h].at = CASE outcome = "success" -> "Delivered"
                                                [] outcome # "success" /\ GivesUp(task[e][h].attempt) -> "Failed"
                                                [] OTHER -> "sleep"]
    /\ UNCHANGED <<registered, sending>>
deliver_with_retry(e, h) ==
    /\ task[e][h].at = "sleep"
    /\ task' = [task EXCEPT ![e][h] = [at |-> "post", attempt |-> @.attempt + 1]]
    /\ UNCHANGED <<registered, sending, posted, agreed>>

\* broadcast, second half: it waits for every task.
collect(e) ==
    /\ sending[e].at = "running"
    /\ \A h \in Hooks : task[e][h].at \in {"none", "Delivered", "Failed"}
    /\ LET answers == {Delivery(h, task[e][h].at, task[e][h].attempt + 1) :
                          h \in {x \in Hooks : task[e][x].at # "none"}}
       IN  sending' = [sending EXCEPT ![e] = [at |-> "answered", deliveries |-> answers]]
    /\ UNCHANGED <<registered, task, posted, agreed>>

\* The process stops: broadcasts and webhooks are gone, the endpoints are not.
WebhooksStop ==
    /\ \E e \in Events : sending[e].at = "running"
    /\ registered' = {}
    /\ sending' = [e \in Events |-> IF sending[e].at = "running" THEN [sending[e] EXCEPT !.at = "lost"] ELSE sending[e]]
    /\ task' = [e \in Events |-> [h \in Hooks |-> NoTask]]
    /\ UNCHANGED <<posted, agreed>>

WebhooksNext ==
    \/ \E h \in Hooks : register_hook(h)
    \/ \E e \in Events :
         \/ broadcast(e) \/ collect(e)
         \/ \E h \in Hooks : deliver(e, h) \/ deliver_with_retry(e, h)
    \/ WebhooksStop

-----------------------------------------------------------------------------
(* Properties.                                                             *)

Told(e) == sending[e].at = "answered"

\* A delivery called Delivered was accepted by its endpoint; one called Failed
\* was tried as often as configured, and was accepted only if the answers were
\* lost; an endpoint gets an event no more often than it was tried, which is
\* more than once when an answer was lost.
DeliveriesTrue ==
    \A e \in Events : Told(e) =>
      \A d \in sending[e].deliveries :
        /\ d.status = "Delivered" => agreed[e][d.hook] > 0
        /\ d.status = "Failed" => d.attempts = MaxRetries + 1
        /\ agreed[e][d.hook] <= posted[e][d.hook] /\ posted[e][d.hook] <= d.attempts

\* A broadcast answers for the webhooks it sent the event to, once each, and
\* an endpoint of another one never hears of it.
EveryHookAnswered ==
    \A e \in Events :
      /\ Told(e) => \A d, x \in sending[e].deliveries : d.hook = x.hook => d = x
      /\ \A h \in Hooks :
           posted[e][h] > 0 => /\ should_send(h, e)
                               /\ Told(e) => \E d \in sending[e].deliveries : d.hook = h

\* What a broadcast answers is what happened at the endpoints.
WebhooksSound == DeliveriesTrue /\ EveryHookAnswered

=============================================================================
