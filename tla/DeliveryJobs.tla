---------------------------- MODULE DeliveryJobs ----------------------------
(***************************************************************************)
(* The external API's way to stock: a request creates products at OTTO and *)
(* publishes a delivery job for the first of them                          *)
(* (app/services/extermal_service.py, app/infrastructure/                  *)
(* rabbitmq_publisher.py); a consumer takes the jobs from a durable queue   *)
(* one at a time and acknowledges a job when OTTO has taken quantity and    *)
(* delivery (rabbitmq_consumer.py).  A job that fails is put back, and the *)
(* broker hands it out again before those behind it.                        *)
(***************************************************************************)
EXTENDS Scenes, Integers, Sequences, SequencesExt, FiniteSets

CONSTANTS
    Requests,       \* requests: sequences of products
    MaxJobs,        \* bound: no request is sent while so many jobs are waiting
    Poisonous       \* products whose quantity OTTO may refuse each time

ASSUME RequestsAssumption == \A r \in Requests : r \in Seq(Nat \ {0}) /\ r # <<>>

VARIABLES
    request,        \* each request: "new", "creating", "accepted", "ok", "error"
    atOtto,         \* products OTTO has
    jobs,           \* the queue of the broker: products, or Garbage
    delivery,       \* the consumer: [at, job]
    stocked,        \* per product, what OTTO has taken
    published,      \* history: jobs the broker has confirmed
    acknowledged    \* history: jobs that were acknowledged

deliveryVars == <<request, atOtto, jobs, delivery, stocked, published, acknowledged>>

Poison == IF May("poison") THEN Poisonous ELSE {}
Garbage == 0        \* a message that is no CreateDeliveryJob
ProductsOf(r) == Range(r)
ExternalProducts == UNION {ProductsOf(r) : r \in Requests}
NoJob == [at |-> "idle", job |-> Garbage]

-----------------------------------------------------------------------------
(* create_or_update_product                                                *)

\* A caller may send a request again that was answered with an error.
SendProducts(r) ==
    /\ request[r] \in {"new", "error"} /\ Len(jobs) < MaxJobs
    /\ request' = [request EXCEPT ![r] = "creating"]
    /\ UNCHANGED <<scene, atOtto, jobs, delivery, stocked, published, acknowledged>>

ProductsCreated(r) ==
    /\ request[r] = "creating"
    /\ atOtto' = atOtto \cup ProductsOf(r)
    /\ request' = [request EXCEPT ![r] = "accepted"]
    /\ UNCHANGED <<scene, jobs, delivery, stocked, published, acknowledged>>

\* payload.root[0]
FirstProduct(r) == r[1]

\* With publisher confirms: the answer waits for the broker.
PublishJob(r) ==
    /\ request[r] = "accepted"
    /\ jobs' = Append(jobs, FirstProduct(r))
    /\ published' = published \cup {FirstProduct(r)}
    /\ request' = [request EXCEPT ![r] = "ok"]
    /\ UNCHANGED <<scene, atOtto, delivery, stocked, acknowledged>>

\* A seeded fault: the exception is logged and swallowed.
AnswerOfOk == "ok"

AnswerOfError == "error"

\* OTTO refuses; or its answer has no link, the job cannot be built of the
\* product, the broker does not take it: then OTTO has the products without a job.
RequestRaises(r) ==
    /\ May("raises") /\ request[r] \in {"creating", "accepted"}
    /\ request' = [request EXCEPT ![r] = AnswerOfError]
    /\ \/ UNCHANGED jobs
       \/ request[r] = "accepted" /\ jobs' = Append(jobs, FirstProduct(r))
    /\ UNCHANGED <<scene, atOtto, delivery, stocked, published, acknowledged>>

-----------------------------------------------------------------------------
(* _process_message, create_or_update_availability                         *)

\* prefetch_count = 1: one message until it is settled.
Receive ==
    /\ delivery.at = "idle" /\ jobs # <<>>
    /\ delivery' = [at |-> IF Head(jobs) = Garbage THEN "reject" ELSE "quantity",
                    job |-> Head(jobs)]
    /\ jobs' = Tail(jobs)
    /\ UNCHANGED <<scene, request, atOtto, stocked, published, acknowledged>>

RejectGarbage ==
    /\ delivery.at = "reject"
    /\ delivery' = NoJob
    /\ UNCHANGED <<scene, request, atOtto, jobs, stocked, published, acknowledged>>

Stock(what) == stocked' = [stocked EXCEPT ![delivery.job] = @ \cup {what}]

StockQuantity ==
    /\ delivery.at = "quantity" /\ delivery.job \notin Poison
    /\ Stock("quantity")
    /\ delivery' = [delivery EXCEPT !.at = "delivery"]
    /\ UNCHANGED <<scene, request, atOtto, jobs, published, acknowledged>>

StockDelivery ==
    /\ delivery.at = "delivery"
    /\ Stock("delivery")
    /\ delivery' = [delivery EXCEPT !.at = "ack"]
    /\ UNCHANGED <<scene, request, atOtto, jobs, published, acknowledged>>

\* Either request raises; five seconds later the job is put back.
HandlerRaises ==
    /\ \/ delivery.at = "quantity" /\ delivery.job \in Poison
       \/ May("raises") /\ delivery.at \in {"quantity", "delivery"}
    /\ delivery' = [delivery EXCEPT !.at = "nack"]
    /\ UNCHANGED <<scene, request, atOtto, jobs, stocked, published, acknowledged>>

\* A seeded fault: the job is not put back.
Dropped(job) == jobs

\* To where it was: no other consumer has taken what is behind it.
Requeued(job) == <<job>> \o jobs

Nack ==
    /\ delivery.at = "nack"
    /\ jobs' = Requeued(delivery.job)
    /\ delivery' = NoJob
    /\ UNCHANGED <<scene, request, atOtto, stocked, published, acknowledged>>

\* A seeded fault: the job is acknowledged before OTTO has been asked for delivery.
MayAckEarly(at) == at \in {"delivery", "ack"}

MayAck(at) == at = "ack"

Ack ==
    /\ MayAck(delivery.at)
    /\ acknowledged' = acknowledged \cup {delivery.job}
    /\ delivery' = NoJob
    /\ UNCHANGED <<scene, request, atOtto, jobs, stocked, published>>

\* The connection or the consumer is gone before the job is settled: the broker
\* hands it out again, also if OTTO has taken everything already.
ConsumerDies ==
    /\ May("dies") /\ delivery.at # "idle"
    /\ jobs' = <<delivery.job>> \o jobs
    /\ delivery' = NoJob
    /\ UNCHANGED <<scene, request, atOtto, stocked, published, acknowledged>>

-----------------------------------------------------------------------------
DeliveryInit ==
    /\ request = [r \in Requests |-> "new"]
    /\ atOtto = {}
    /\ jobs = IF Plays("delivery") /\ May("garbage") THEN <<Garbage>> ELSE <<>>
    /\ delivery = NoJob
    /\ stocked = [p \in ExternalProducts |-> {}]
    /\ published = {} /\ acknowledged = {}

RequestStep == \E r \in Requests : ProductsCreated(r) \/ PublishJob(r)

ConsumerStep ==
    Receive \/ RejectGarbage \/ StockQuantity \/ StockDelivery \/ Nack \/ Ack

DeliveryNext ==
    /\ Plays("delivery")
    /\ \/ RequestStep \/ ConsumerStep \/ HandlerRaises \/ ConsumerDies
       \/ \E r \in Requests : SendProducts(r) \/ RequestRaises(r)

\* The consumer runs, and OTTO does not fail every time it is asked.
DeliveryFairness ==
    /\ WF_deliveryVars(Plays("delivery") /\ (ConsumerStep \/ HandlerRaises))
    /\ SF_deliveryVars(Plays("delivery") /\ StockQuantity)
    /\ SF_deliveryVars(Plays("delivery") /\ StockDelivery)
    /\ SF_deliveryVars(Plays("delivery") /\ Ack)

-----------------------------------------------------------------------------
(* Properties.                                                             *)

DeliveryTypeOK ==
    /\ request \in [Requests -> {"new", "creating", "accepted", "ok", "error"}]
    /\ jobs \in Seq(ExternalProducts \cup {Garbage})
    /\ delivery.job \in ExternalProducts \cup {Garbage}
    /\ stocked \in [ExternalProducts -> SUBSET {"quantity", "delivery"}]

\* A job the broker has confirmed is in the queue or at the consumer until OTTO has
\* taken both its quantity and its delivery, however often the handler fails and the
\* consumer dies.
JobKeptUntilStocked ==
    \A p \in published :
        \/ p \in Range(jobs) \/ delivery.job = p
        \/ p \in acknowledged /\ stocked[p] = {"quantity", "delivery"}

\* A request that was answered well has made OTTO know its products, and the broker
\* a job for the first of them.
AnswerMeansJob ==
    \A r \in Requests : request[r] = "ok" => ProductsOf(r) \subseteq atOtto /\ FirstProduct(r) \in published

\* Where OTTO takes what it is sent in the end, every job is carried out.  One job
\* that is refused for good is handed out again and again, and none behind it.
JobsAreCarriedOut ==
    (Plays("delivery") /\ ~May("poison"))
        => \A p \in ExternalProducts : (p \in published) ~> (p \in acknowledged)

=============================================================================
