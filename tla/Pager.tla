-------------------------------- MODULE Pager --------------------------------
(***************************************************************************)
(* Assignment5/pager.c: page replacement.  The pager keeps a queue of the  *)
(* pages in memory; a request for a page that is not there fetches it and, *)
(* when every frame is taken, gives up the page that the algorithm picks.  *)
(*                                                                         *)
(* The queue (queue.a) and the simulator (simulator.a) are supplied and    *)
(* external; each request is made in a clock cycle of its own.             *)
(***************************************************************************)
EXTENDS Integers, Sequences, FiniteSets

CONSTANTS
    VPage,         \* the virtual pages requested
    FrameCounts,   \* the numbers of frames the pager is started with
    MaxRequests    \* bound: the requests made

ASSUME PagerAssumption ==
    /\ FrameCounts \subseteq Nat \ {0} /\ MaxRequests \in Nat

PagerAlgorithms == {"FIRST_IN_FIRST_OUT", "LEAST_RECENTLY_USED",
                    "LEAST_FREQUENTLY_USED", "SECOND_CHANCE", "CIRCULAR_QUEUE"}

VARIABLES
    algorithm, frame,        \* the arguments of pager_init()
    page_queue,              \* its queue of Page records
    requests,                \* observation: the pages requested so far
    faults                   \* observation: the requests that were faults

pagerVars == <<algorithm, frame, page_queue, requests, faults>>

(* pager_init() *)
PagerInit(a, n) ==
    /\ algorithm = a /\ frame = n
    /\ page_queue = <<>>
    /\ requests = <<>>
    /\ faults = {}

-----------------------------------------------------------------------------
(* external: the clock, one request to a cycle *)
Time == Len(requests) + 1

NewPage(p, last, freq) == [page_num |-> p, last_request |-> last, frequency |-> freq]

(* queue_find(): the places of page p in the queue *)
FindPage(p) == {k \in DOMAIN page_queue : page_queue[k].page_num = p}

recent_comparator(a, b) == a.last_request - b.last_request

freq_comparator(a, b) ==
    IF a.frequency = b.frequency /\ a.frequency > 1
    THEN b.last_request - a.last_request
    ELSE a.frequency - b.frequency

(* external: queue_sort() puts the queue in some order that the comparator *)
(* allows                                                                  *)
QueueSort(q, Cmp(_, _)) ==
    {s \in [DOMAIN q -> {q[k] : k \in DOMAIN q}] :
        /\ \A k \in DOMAIN q : \E j \in DOMAIN q : s[j] = q[k]
        /\ \A k \in 2 .. Len(q) : Cmp(s[k - 1], s[k]) <= 0}

(* the queue after the oldest page was given up, if all frames are taken *)
MakeRoom(q) == IF Len(q) >= frame THEN Tail(q) ELSE q

(***************************************************************************)
(* SECOND_CHANCE and CIRCULAR_QUEUE: from the front of the queue, pages    *)
(* whose bit (last_request) is 1 go to the back with the bit cleared, and  *)
(* the first page with a clear bit is given up.  k is how many go back.    *)
(***************************************************************************)
Cleared(pg) == [pg EXCEPT !.last_request = 0]

(* variant: the bit of the page at the front is not looked at *)
RotateOne(q) == MakeRoom(q)

Rotate(q) ==
    IF Len(q) < frame THEN q
    ELSE LET used(k) == \A j \in 1 .. k : q[j].last_request = 1
             k == CHOOSE k \in 0 .. Len(q) : used(k) /\ (k < Len(q) => ~used(k + 1))
             turned == [j \in DOMAIN q |-> IF j <= Len(q) - k THEN q[j + k]
                                           ELSE Cleared(q[j + k - Len(q)])]
         IN Tail(turned)

(* a page fault: sim_get_page(), the victim leaves and the page enters *)
Fault(p) ==
    CASE algorithm = "FIRST_IN_FIRST_OUT" ->
           {Append(MakeRoom(page_queue), NewPage(p, 0, 0))}
      [] algorithm = "LEAST_RECENTLY_USED" ->
           {Append(MakeRoom(q), NewPage(p, Time, 0)) :
               q \in QueueSort(page_queue, recent_comparator)}
      [] algorithm = "LEAST_FREQUENTLY_USED" ->
           UNION {QueueSort(Append(MakeRoom(q), NewPage(p, Time, 1)), freq_comparator) :
                     q \in QueueSort(page_queue, freq_comparator)}
      [] algorithm = "SECOND_CHANCE" ->
           {Append(Rotate(page_queue), NewPage(p, 0, 0))}
      [] algorithm = "CIRCULAR_QUEUE" ->
           {Append(Rotate(page_queue), NewPage(p, 1, 0))}

(* a page that is in memory: what its record remembers of the request *)
Hit(pg) ==
    CASE algorithm = "FIRST_IN_FIRST_OUT" -> pg
      [] algorithm = "LEAST_RECENTLY_USED" -> [pg EXCEPT !.last_request = Time]
      [] algorithm = "LEAST_FREQUENTLY_USED" ->
           [pg EXCEPT !.frequency = @ + 1, !.last_request = Time]
      [] OTHER -> [pg EXCEPT !.last_request = 1]

(* pager_request() *)
pager_request(p) ==
    /\ Len(requests) < MaxRequests
    /\ requests' = Append(requests, p)
    /\ \/ /\ FindPage(p) = {}
          /\ page_queue' \in Fault(p)
          /\ faults' = faults \cup {Time}
       \/ \E k \in FindPage(p) :
             /\ page_queue' = [page_queue EXCEPT ![k] = Hit(@)]
             /\ UNCHANGED faults
    /\ UNCHANGED <<algorithm, frame>>

PagerNext == \E p \in VPage : pager_request(p)

-----------------------------------------------------------------------------
Resident == {page_queue[k].page_num : k \in DOMAIN page_queue}

(* observation: when page p was last requested, and last fetched *)
LastUse(p) == CHOOSE k \in DOMAIN requests :
                 requests[k] = p /\ \A j \in k + 1 .. Len(requests) : requests[j] # p
LastFetch(p) == CHOOSE k \in faults :
                   requests[k] = p /\ \A j \in faults : requests[j] = p => j <= k

(* observation: the requests for page p since it was fetched, and all *)
Uses(p) == Cardinality({k \in LastFetch(p) .. Len(requests) : requests[k] = p})
AllUses(p) == Cardinality({k \in DOMAIN requests : requests[k] = p})

(* a page of the clock algorithms that is marked as used *)
Marked(p) == \E k \in FindPage(p) : page_queue[k].last_request = 1

(***************************************************************************)
(* A request leaves its page in memory and takes at most one page out,     *)
(* only when all frames are taken; and that page is the right victim in    *)
(* terms of the history of requests: the one fetched first, the one not    *)
(* requested for the longest time, for LEAST_FREQUENTLY_USED one requested *)
(* least often since it was fetched (the record that counts is made anew   *)
(* by each fetch; see InfiniteHistory), or, for the clock algorithms, the  *)
(* first fetched or spared of the pages not used since (of all pages, if   *)
(* all were used).                                                         *)
(***************************************************************************)
VictimByPolicy ==
    [][requests' # requests =>
         LET p == requests'[Len(requests')]
             gone == Resident \ Resident'
         IN /\ p \in Resident'
            /\ Resident' = (Resident \ gone) \cup {p}
            /\ Len(page_queue') = Cardinality(Resident')
            /\ Cardinality(gone) = IF p \in Resident \/ Cardinality(Resident) < frame
                                   THEN 0 ELSE 1
            /\ \A v \in gone, q \in Resident :
                  CASE algorithm = "FIRST_IN_FIRST_OUT" -> LastFetch(v) <= LastFetch(q)
                    [] algorithm = "LEAST_RECENTLY_USED" -> LastUse(v) <= LastUse(q)
                    [] algorithm = "LEAST_FREQUENTLY_USED" -> Uses(v) <= Uses(q)
                    [] OTHER -> /\ Marked(v) => Marked(q)
                                /\ (Marked(q) = Marked(v)) =>
                                      \E i \in FindPage(v), j \in FindPage(q) : i <= j
      ]_pagerVars

(***************************************************************************)
(* simulator.h:24: LEAST_FREQUENTLY_USED counts uses over an infinite      *)
(* history.  Violated: the count is lost with the page's record when the   *)
(* page is given up, and begins at 1 when it is fetched again.             *)
(***************************************************************************)
InfiniteHistory ==
    [][requests' # requests /\ algorithm = "LEAST_FREQUENTLY_USED" =>
         \A v \in Resident \ Resident', q \in Resident : AllUses(v) <= AllUses(q)
      ]_pagerVars
=============================================================================
