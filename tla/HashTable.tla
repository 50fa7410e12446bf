------------------------------ MODULE HashTable ------------------------------
(***************************************************************************)
(* The hash table of lib/kernel/hash.c: chained buckets whose number       *)
(* follows the number of elements, and an iterator.  An element is a pair  *)
(* of a key, which is what less() compares and hash() maps, and a tag that *)
(* tells equal elements apart.                                             *)
(***************************************************************************)
EXTENDS Integers, Sequences, SequencesExt, FiniteSets

CONSTANTS
    HElem,           \* the elements callers have, <<key, tag>>
    KeyHash,         \* the hash value of each key
    MinBuckets,      \* the least number of buckets, a power of two (4 in hash.c)
    BEST_ELEMS_PER_BUCKET,
    NullElem         \* the null pointer

ASSUME HashAssumption ==
    /\ MinBuckets \in {1, 2, 4} /\ BEST_ELEMS_PER_BUCKET \in Nat \ {0}
    /\ NullElem \notin HElem

VARIABLES
    buckets,         \* h->buckets: bucket i is a sequence of elements
    elem_cnt,        \* h->elem_cnt
    iter,            \* a hash_iterator: its bucket, the position of its element
                     \* there (0: the head), or bucket -1 when there is none
    seen,            \* observation: what the iterator has returned
    answer           \* observation: the last call and what it returned

hashVars == <<buckets, elem_cnt, iter, seen, answer>>

HKey == {e[1] : e \in HElem}
NoIterator == [bucket |-> -1, pos |-> 0]
bucket_cnt == Cardinality(DOMAIN buckets)
Empty(n) == [i \in 0 .. n - 1 |-> <<>>]

(* hash_init() *)
HashInit ==
    /\ buckets = Empty(MinBuckets)
    /\ elem_cnt = 0
    /\ iter = NoIterator
    /\ seen = <<>>
    /\ answer = [op |-> "init"]

-----------------------------------------------------------------------------
(* find_bucket(): the number of the key's bucket among n *)
find_bucket(key, n) == KeyHash[key] % n

(* find_elem() in bucket b *)
find_elem(b, key) ==
    LET equal == SelectSeq(b, LAMBDA e : e[1] = key)
    IN IF equal = <<>> THEN NullElem ELSE Head(equal)

(* insert_elem() and remove_elem(), on buckets bs *)
insert_elem(bs, i, e) == [bs EXCEPT ![i] = <<e>> \o @]
remove_elem(bs, e) ==
    [bs EXCEPT ![find_bucket(e[1], Cardinality(DOMAIN bs))] = Remove(@, e)]

(* the largest power of two that is at most n, from MinBuckets on *)
ideal_bucket_cnt(n) ==
    LET q == n \div BEST_ELEMS_PER_BUCKET
    IN CHOOSE p \in {MinBuckets * 2 ^ k : k \in 0 .. 4} :
          p <= (IF q < MinBuckets THEN MinBuckets ELSE q)
            /\ (2 * p > q \/ (q < MinBuckets /\ p = MinBuckets))

(* all the elements of bs in the order of a walk through the buckets: what *)
(* hash_apply(), hash_clear() and rehash() visit                           *)
Walk(bs) == FlattenSeq([i \in 1 .. Cardinality(DOMAIN bs) |-> bs[i - 1]])

(* variant: the elements keep the number of the bucket they were in *)
RehashInPlace(bs, n) ==
    {[i \in 0 .. ideal_bucket_cnt(n) - 1 |-> IF i \in DOMAIN bs THEN bs[i] ELSE <<>>]}

(* one step of rehash()'s walk: the element goes to the front of its new    *)
(* bucket; the walk has asked for the next one before                       *)
MoveElem(new, e) == insert_elem(new, find_bucket(e[1], Cardinality(DOMAIN new)), e)

(* rehash(), of buckets bs that hold n elements: what they become.  Without *)
(* memory for the buckets nothing changes.                                  *)
rehash(bs, n) ==
    LET cnt == ideal_bucket_cnt(n)
    IN IF cnt = Cardinality(DOMAIN bs) THEN {bs}
       ELSE {bs, FoldLeft(MoveElem, Empty(cnt), Walk(bs))}

-----------------------------------------------------------------------------
Old(key) == find_elem(buckets[find_bucket(key, bucket_cnt)], key)

(* the call of op ends: the table has buckets in bss and n elements, and   *)
(* the caller's iterators are invalid                                      *)
Modify(bss, n, call) ==
    /\ buckets' \in bss
    /\ elem_cnt' = n
    /\ iter' = NoIterator /\ seen' = <<>>
    /\ answer' = call

hash_insert(e) ==
    LET old == Old(e[1])
        bs == IF old = NullElem THEN insert_elem(buckets, find_bucket(e[1], bucket_cnt), e)
                                ELSE buckets
        n == elem_cnt + IF old = NullElem THEN 1 ELSE 0
    IN Modify(rehash(bs, n), n, [op |-> "insert", elem |-> e, ret |-> old])

hash_replace(e) ==
    LET old == Old(e[1])
        bs == IF old = NullElem THEN buckets ELSE remove_elem(buckets, old)
        n == elem_cnt + IF old = NullElem THEN 1 ELSE 0
    IN Modify(rehash(insert_elem(bs, find_bucket(e[1], bucket_cnt), e), n), n,
              [op |-> "replace", elem |-> e, ret |-> old])

(* hash_delete() of an element that is not there does not rehash *)
hash_delete(key) ==
    LET found == Old(key)
        n == elem_cnt - IF found = NullElem THEN 0 ELSE 1
    IN Modify(IF found = NullElem THEN {buckets} ELSE rehash(remove_elem(buckets, found), n),
              n, [op |-> "delete", key |-> key, ret |-> found])

hash_find(key) ==
    /\ answer' = [op |-> "find", key |-> key, ret |-> Old(key)]
    /\ UNCHANGED <<buckets, elem_cnt, iter, seen>>

(* hash_clear() with a destructor: the number of buckets stays *)
hash_clear ==
    Modify({Empty(bucket_cnt)}, 0, [op |-> "clear", ret |-> Walk(buckets)])

hash_apply ==
    /\ answer' = [op |-> "apply", ret |-> Walk(buckets)]
    /\ UNCHANGED <<buckets, elem_cnt, iter, seen>>

hash_first ==
    /\ iter' = [bucket |-> 0, pos |-> 0]
    /\ seen' = <<>>
    /\ answer' = [op |-> "first"]
    /\ UNCHANGED <<buckets, elem_cnt>>

(* hash_next(): the next element of the bucket, or the first one of the    *)
(* next bucket that is not empty                                           *)
hash_next ==
    /\ iter.bucket \in DOMAIN buckets
    /\ LET later == {i \in DOMAIN buckets : i > iter.bucket /\ buckets[i] # <<>>}
           to == IF iter.pos < Len(buckets[iter.bucket])
                 THEN [iter EXCEPT !.pos = @ + 1]
                 ELSE IF later = {} THEN [bucket |-> bucket_cnt, pos |-> 0]
                 ELSE [bucket |-> CHOOSE i \in later : \A j \in later : i <= j, pos |-> 1]
           elem == IF to.bucket = bucket_cnt THEN NullElem ELSE buckets[to.bucket][to.pos]
       IN /\ iter' = to
          /\ seen' = IF elem = NullElem THEN seen ELSE Append(seen, elem)
          /\ answer' = [op |-> "next", ret |-> elem]
    /\ UNCHANGED <<buckets, elem_cnt>>

HashNext ==
    \/ \E e \in HElem : hash_insert(e) \/ hash_replace(e)
    \/ \E key \in HKey : hash_find(key) \/ hash_delete(key)
    \/ hash_clear \/ hash_apply \/ hash_first \/ hash_next

-----------------------------------------------------------------------------
Content == {e \in HElem : \E i \in DOMAIN buckets : Contains(buckets[i], e)}

(* what a map from keys to elements holds under key *)
Held(key) == IF \E e \in Content : e[1] = key THEN CHOOSE e \in Content : e[1] = key
                                              ELSE NullElem

(* s names every element of the table once *)
Enumerates(s) == Len(s) = Cardinality(Content) /\ {s[k] : k \in DOMAIN s} = Content

(***************************************************************************)
(* However the buckets grow, shrink or fail to, the table is a map from    *)
(* keys to elements: every call returns what the map held and changes the  *)
(* map as it should; no element is lost, kept twice or left in a bucket    *)
(* where it would not be found; elem_cnt counts them; and clear, apply and *)
(* the iterator visit each element once.                                   *)
(***************************************************************************)
HashFaithful ==
    [][LET c == answer'
           Without(key) == {e \in Content : e[1] # key}
       IN /\ elem_cnt' = Cardinality(Content') /\ Enumerates(Walk(buckets))'
          /\ CASE c.op = "insert" ->
                     /\ c.ret = Held(c.elem[1])
                     /\ Content' = Content \cup IF c.ret = NullElem THEN {c.elem} ELSE {}
               [] c.op = "replace" ->
                     c.ret = Held(c.elem[1]) /\ Content' = Without(c.elem[1]) \cup {c.elem}
               [] c.op = "delete" -> c.ret = Held(c.key) /\ Content' = Without(c.key)
               [] c.op = "find" -> c.ret = Held(c.key) /\ Content' = Content
               [] c.op = "clear" -> Enumerates(c.ret) /\ Content' = {}
               [] c.op = "apply" -> Enumerates(c.ret) /\ Content' = Content
               [] c.op = "next" -> c.ret = NullElem => Enumerates(seen')
               [] OTHER -> Content' = Content
      ]_hashVars
=============================================================================
