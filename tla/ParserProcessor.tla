---------------------------- MODULE ParserProcessor ----------------------------
(***************************************************************************)
(* The consumers of the 'api' Bull queue (parser.processor.ts).  Its named *)
(* handlers run concurrently, Bull hands out the jobs in any order, and a  *)
(* job that throws is not retried.                                         *)
(***************************************************************************)
CONSTANTS
    RowOf,      \* [cache key -> row of goods in the database]
    Nothing     \* no entry under a cache key

VARIABLES
    cached, queue, db,
    storing,    \* the keys jobs between their read of the cache and their write
    stats       \* the documents of the api request statistics

ProcessorInit ==
    /\ storing = {}
    /\ stats = {}

\* The handlers take one job off the queue.
Take(job, name) ==
    /\ job \in queue
    /\ job.name = name
    /\ queue' = queue \ {job}

ApiRequestStats(job) ==
    /\ Take(job, "apiRequestStats")
    /\ stats' = stats \union {job}
    /\ UNCHANGED <<cached, db, storing>>

\* The mail service swallows the errors of its transport.
ProcessErrorMessage(job) ==
    /\ Take(job, "mail")
    /\ UNCHANGED <<cached, db, storing, stats>>

\* The keys handler reads what its key holds now.  If the key has expired,
\* goods is null, goods.map throws and the job is lost.
Keys(job) ==
    /\ Take(job, "keys")
    /\ storing' = IF cached[job.key] = Nothing THEN storing
                  ELSE storing \union {[job |-> job, goods |-> cached[job.key].goods]}
    /\ UNCHANGED <<cached, db, stats>>

\* createOrUpdate of the goods it read.
CreateOrUpdate(write) ==
    /\ write \in storing
    /\ db' = [db EXCEPT ![RowOf[write.job.key]] = write.goods]
    /\ storing' = storing \ {write}
    /\ UNCHANGED <<cached, queue, stats>>

ProcessorStep ==
    \/ \E job \in queue : ApiRequestStats(job) \/ ProcessErrorMessage(job) \/ Keys(job)
    \/ \E write \in storing : CreateOrUpdate(write)
=============================================================================
