--------------------------- MODULE RetrievalProofs ---------------------------
(***************************************************************************)
(* Theorems about Retrieval, for any catalogue, query, provider, number of *)
(* jobs, retries and rows shown.                                           *)
(***************************************************************************)
EXTENDS Retrieval, FiniteSetTheorems, TLAPS

JobState == [pc : {"idle", "written", "reading", "embedding", "storing"},
             product : Products \cup {NoProduct}, version : Versions,
             attempts : 0..MaxAttempts - 1, alone : BOOLEAN]
SearchState == [pc : {"idle", "embedding", "ranking", "matching", "stocking", "done", "failed"},
                terms : BOOLEAN, attempts : 0..MaxAttempts - 1, found : SUBSET Products,
                offered : SUBSET Products, steady : SUBSET Products]

(* The catalogue's part of the type invariant. *)
CatalogueTyped ==
  /\ embedder \in Embedders
  /\ text \in [Products -> Versions]
  /\ listed \subseteq Products
  /\ inStock \subseteq Products
  /\ vector \in [Products -> Versions \cup {NoVector}]
  /\ lagging \subseteq Products
  /\ edits \in 0..MaxEdits

(* A job has a product while it is under way; one that is alone is the     *)
(* only job of its product, and holds that product's current text once it  *)
(* has read it.                                                            *)
JobsKnow ==
  \A j \in Jobs :
    /\ job[j].pc = "idle" <=> job[j].product = NoProduct
    /\ job[j].pc # "idle" /\ job[j].alone =>
         /\ \A i \in Jobs \ {j} : job[i].product # job[j].product
         /\ job[j].pc \in {"embedding", "storing"} => job[j].version = text[job[j].product]

(* What a search counts on is listed and named; then the query has terms,  *)
(* and past the matching something was found.                              *)
SearchKnows ==
  /\ search.steady \subseteq {p \in listed : Names(p, text[p])}
  /\ search.steady # {} => search.terms
  /\ search.steady # {} /\ search.pc \in {"stocking", "done"} => search.found # {}

-----------------------------------------------------------------------------
(* The values every job and search starts from. *)
LEMMA FreshStates ==
  ASSUME RetrievalAssumption
  PROVE  NewJob \in JobState /\ NewSearch \in SearchState
<1>1. 0 \in Versions /\ 0 \in 0..MaxAttempts - 1
  BY DEF RetrievalAssumption, Versions
<1>2. QED
  BY <1>1 DEF NewJob, JobState, NewSearch, SearchState

(* A retry that is admitted is still one of the attempts allowed. *)
LEMMA RetryCounted ==
  ASSUME RetrievalAssumption, NEW attempts \in 0..MaxAttempts - 1, MayRetry(attempts)
  PROVE  attempts + 1 \in 0..MaxAttempts - 1
BY DEF RetrievalAssumption, MayRetry

(* Some rows are shown of a set that is not empty, whatever the limit.     *)
LEMMA ShowsSome ==
  ASSUME RetrievalAssumption, NEW rows, rows \subseteq Products, rows # {}, NEW found \in Shown(rows)
  PROVE  found # {}
<1>1. IsFiniteSet(rows)
  BY FS_Subset DEF RetrievalAssumption
<1>2. Cardinality(rows) \in Nat /\ Cardinality(rows) # 0
  BY <1>1, FS_CardinalityType, FS_EmptySet
<1>3. Min({TopK, Cardinality(rows)}) # 0
  <2>1. \A a, b \in Nat : Min({a, b}) \in {a, b}
    <3>1. SUFFICES ASSUME NEW a \in Nat, NEW b \in Nat PROVE \E x \in {a, b} : \A y \in {a, b} : x <= y
      BY DEF Min
    <3>2. CASE a <= b
      BY <3>2
    <3>3. CASE b <= a
      BY <3>3
    <3>4. QED
      BY <3>2, <3>3
  <2>2. TopK \in Nat /\ TopK # 0
    BY DEF RetrievalAssumption
  <2>3. QED
    BY <1>2, <2>1, <2>2
<1>4. Cardinality(found) # 0
  BY <1>3 DEF Shown
<1>5. QED
  BY <1>4, FS_EmptySet

-----------------------------------------------------------------------------
(* The inductive invariant. *)
IInv ==
  /\ CatalogueTyped
  /\ job \in [Jobs -> JobState]
  /\ search \in SearchState
  /\ JobsKnow
  /\ SearchKnows
  /\ VectorFollowsText

(* It holds at first. *)
LEMMA IInvInit ==
  ASSUME RetrievalAssumption, Init
  PROVE  IInv
<1>1. 0 \in Versions /\ 0 \in 0..MaxEdits
  BY DEF RetrievalAssumption, Versions
<1>2. vector \in [Products -> {NoVector, 0}]
  BY DEF Init
<1>3. CatalogueTyped
  BY <1>1, <1>2 DEF Init, CatalogueTyped
<1>4. job \in [Jobs -> JobState] /\ search \in SearchState
  BY FreshStates DEF Init
<1>5. JobsKnow /\ SearchKnows
  BY DEF Init, JobsKnow, SearchKnows, NewJob, NewSearch
<1>6. VectorFollowsText
  BY <1>2 DEF Init, VectorFollowsText
<1>7. QED
  BY <1>3, <1>4, <1>5, <1>6 DEF IInv

(* A job that moves on leaves the other jobs alone. *)
LEMMA BecomeMoves ==
  ASSUME job \in [Jobs -> JobState], NEW j \in Jobs, NEW new \in JobState, Become(j, new)
  PROVE  /\ job' \in [Jobs -> JobState] /\ job'[j] = new
         /\ \A i \in Jobs \ {j} : job'[i] = job[i]
BY DEF Become

(* What a search counts on only shrinks while the catalogue changes. *)
LEMMA SteadyShrinks ==
  ASSUME search \in SearchState, SearchKnows, NEW names, NEW shown, StillSteady(names, shown),
         text' = names, listed' = shown
  PROVE  search' \in SearchState /\ SearchKnows'
<1> DEFINE steady == {p \in search.steady : p \in shown /\ Names(p, names[p])}
<1>1. search' = [search EXCEPT !.steady = steady] /\ steady \subseteq search.steady
  BY DEF StillSteady
<1>2. steady \subseteq {p \in listed' : Names(p, text'[p])}
  OBVIOUS
<1> HIDE DEF steady
<1>3. search' \in SearchState /\ search'.steady = steady /\ search'.terms = search.terms
      /\ search'.pc = search.pc /\ search'.found = search.found
  BY <1>1 DEF SearchState
<1>4. SearchKnows'
  BY <1>1, <1>2, <1>3 DEF SearchKnows
<1>5. QED
  BY <1>3, <1>4

(* A step of a job that writes no text keeps what searches know. *)
LEMMA SearchUntouched ==
  ASSUME search \in SearchState, SearchKnows, UNCHANGED <<text, listed, search>>
  PROVE  search' \in SearchState /\ SearchKnows'
BY DEF SearchKnows

(* A search's step keeps what jobs and vectors know. *)
LEMMA JobsUntouched ==
  ASSUME CatalogueTyped, job \in [Jobs -> JobState], JobsKnow, VectorFollowsText,
         UNCHANGED <<embedder, text, vector, job, lagging, edits>>,
         listed' \subseteq Products, inStock' \subseteq Products
  PROVE  CatalogueTyped' /\ job' \in [Jobs -> JobState] /\ JobsKnow' /\ VectorFollowsText'
BY DEF CatalogueTyped, JobsKnow, VectorFollowsText, Busy

(* A write of a product: the job it leaves is alone only if none was under *)
(* way for it, and no other job of the product is.                         *)
LEMMA WriteStep ==
  ASSUME RetrievalAssumption, IInv, NEW j \in Jobs, NEW p \in Products, NEW shown \in BOOLEAN,
         WriteProduct(j, p, shown)
  PROVE  IInv'
<1>t. CatalogueTyped /\ job \in [Jobs -> JobState] /\ search \in SearchState /\ JobsKnow
      /\ SearchKnows /\ VectorFollowsText
  BY DEF IInv
<1> DEFINE mine == [NewJob EXCEPT !.pc = "written", !.product = p, !.alone = Busy(p) = {}]
           noLonger(i) == [job[i] EXCEPT !.alone = FALSE]
<1>1. edits + 1 \in Versions /\ edits + 1 \in 0..MaxEdits
  <2>1. edits \in 0..MaxEdits /\ edits < MaxEdits /\ MaxEdits \in Nat
    BY <1>t DEF WriteProduct, CatalogueTyped, RetrievalAssumption
  <2>2. QED
    BY <2>1 DEF Versions
<1>2. text' = [text EXCEPT ![p] = edits + 1] /\ text' \in [Products -> Versions]
      /\ \A q \in Products \ {p} : text'[q] = text[q]
  BY <1>t, <1>1 DEF WriteProduct, CatalogueTyped
<1>3. CatalogueTyped'
  BY <1>t, <1>1, <1>2 DEF WriteProduct, CatalogueTyped
<1>4. /\ mine \in JobState /\ mine.pc = "written" /\ mine.product = p
      /\ mine.alone <=> Busy(p) = {}
  BY FreshStates DEF NewJob, JobState
<1>5. ASSUME NEW i \in Jobs
      PROVE  /\ noLonger(i) \in JobState /\ noLonger(i).product = job[i].product
             /\ noLonger(i).pc = job[i].pc /\ ~noLonger(i).alone
  <2>1. job[i] \in JobState
    BY <1>t
  <2>2. QED
    BY <2>1 DEF JobState
<1> HIDE DEF mine, noLonger
<1>6. job' = [i \in Jobs |-> IF i = j THEN mine ELSE IF i \in Busy(p) THEN noLonger(i) ELSE job[i]]
  BY DEF WriteProduct, mine, noLonger
<1>7. job' \in [Jobs -> JobState]
  BY <1>t, <1>4, <1>5, <1>6
<1>8. j \notin Busy(p)
  BY <1>t DEF WriteProduct, JobsKnow, Busy, RetrievalAssumption
<1>9. \A i \in Jobs \ {j} : job'[i].product = job[i].product /\ job'[i].pc = job[i].pc
  BY <1>5, <1>6
<1>10. \A i \in Jobs \ {j} : job'[i].alone => job'[i] = job[i] /\ job[i].product # p
  BY <1>5, <1>6 DEF Busy
<1>11. job'[j] = mine
  BY <1>6
<1>12. JobsKnow'
  <2>1. ASSUME NEW i \in Jobs \ {j}, job'[i].pc # "idle", job'[i].alone
        PROVE  /\ \A k \in Jobs \ {i} : job'[k].product # job'[i].product
               /\ job'[i].pc \in {"embedding", "storing"} => job'[i].version = text'[job'[i].product]
    <3>1. job'[i] = job[i] /\ job[i].product # p /\ job[i].pc # "idle"
      BY <1>10, <2>1
    <3>2. job[i].product \in Products
      <4>1. job[i] \in JobState
        BY <1>t
      <4>2. QED
        BY <1>t, <3>1, <4>1 DEF JobsKnow, JobState
    <3>3. QED
      BY <1>t, <1>2, <1>4, <1>9, <1>11, <2>1, <3>1, <3>2 DEF JobsKnow
  <2>2. ASSUME job'[j].alone
        PROVE  \A k \in Jobs \ {j} : job'[k].product # job'[j].product
    BY <1>4, <1>9, <1>11, <2>2 DEF Busy
  <2>3. \A i \in Jobs : job'[i].pc = "idle" <=> job'[i].product = NoProduct
    BY <1>t, <1>4, <1>9, <1>11 DEF JobsKnow, RetrievalAssumption
  <2>4. QED
    BY <1>4, <1>11, <2>1, <2>2, <2>3 DEF JobsKnow
<1>13. VectorFollowsText'
  <2>1. j \in Busy(p)'
    BY <1>4, <1>11 DEF Busy
  <2>2. \A q \in Products \ {p} : Busy(q)' = {} => Busy(q) = {}
    <3>1. j \notin UNION {Busy(q) : q \in Products}
      BY <1>t DEF WriteProduct, JobsKnow, Busy, RetrievalAssumption
    <3>2. QED
      BY <1>9, <3>1 DEF Busy
  <2>3. vector' = vector /\ lagging' = lagging
    BY DEF WriteProduct
  <2>4. QED
    BY <1>t, <1>2, <2>1, <2>2, <2>3 DEF VectorFollowsText
<1>14. search' \in SearchState /\ SearchKnows'
  BY <1>t, SteadyShrinks DEF WriteProduct
<1>15. QED
  BY <1>3, <1>7, <1>12, <1>13, <1>14 DEF IInv

(* A job starts, reads, is embedded, is retried, stores its vector or is   *)
(* dropped.                                                                *)
LEMMA JobStep ==
  ASSUME RetrievalAssumption, IInv, NEW j \in Jobs,
         StartJob(j) \/ ReadProduct(j) \/ RetryJob(j) \/ EmbedProduct(j) \/ DropJob(j)
           \/ StoreVector(j)
  PROVE  IInv'
<1>t. CatalogueTyped /\ job \in [Jobs -> JobState] /\ search \in SearchState /\ JobsKnow
      /\ SearchKnows /\ VectorFollowsText
  BY DEF IInv
<1> DEFINE old == job[j]
           p == job[j].product
<1>1. old \in JobState /\ p \in Products
  <2>1. old \in JobState
    BY <1>t
  <2>2. old.pc # "idle"
    BY DEF StartJob, ReadProduct, RetryJob, EmbedProduct, DropJob, StoreVector
  <2>3. QED
    BY <1>t, <2>1, <2>2 DEF JobsKnow, JobState
<1>2. UNCHANGED <<embedder, catalogue, search>>
  BY DEF StartJob, ReadProduct, RetryJob, EmbedProduct, DropJob, StoreVector
<1>3. search' \in SearchState /\ SearchKnows'
  BY <1>t, <1>2, SearchUntouched DEF catalogue
<1>4. 0 \in 0..MaxAttempts - 1
  BY DEF RetrievalAssumption
<1>5. text[p] \in Versions /\ old.version \in Versions
  BY <1>t, <1>1 DEF CatalogueTyped, JobState
<1>6. ASSUME NEW new \in JobState, Become(j, new), new.pc # "idle", new.product = p,
             new.alone = old.alone, UNCHANGED <<vector, lagging>>,
             new.pc \in {"embedding", "storing"} =>
               new.version = text[p] \/ (old.pc \in {"embedding", "storing"} /\ new.version = old.version)
      PROVE  IInv'
  <2>1. job' \in [Jobs -> JobState] /\ job'[j] = new /\ \A i \in Jobs \ {j} : job'[i] = job[i]
    BY <1>t, <1>6, BecomeMoves
  <2>2. CatalogueTyped'
    BY <1>t, <1>2, <1>6 DEF CatalogueTyped, catalogue
  <2>3. \A i \in Jobs : job'[i].product = job[i].product
    BY <1>6, <2>1
  <2>4. old.pc # "idle"
    BY DEF StartJob, ReadProduct, RetryJob, EmbedProduct, DropJob, StoreVector
  <2>5. JobsKnow'
    <3>1. ASSUME NEW i \in Jobs \ {j}, job'[i].pc # "idle", job'[i].alone
          PROVE  /\ \A k \in Jobs \ {i} : job'[k].product # job'[i].product
                 /\ job'[i].pc \in {"embedding", "storing"} => job'[i].version = text'[job'[i].product]
      BY <1>t, <1>2, <2>1, <2>3, <3>1 DEF JobsKnow, catalogue
    <3>2. ASSUME job'[j].alone
          PROVE  /\ \A k \in Jobs \ {j} : job'[k].product # job'[j].product
                 /\ job'[j].pc \in {"embedding", "storing"} => job'[j].version = text'[job'[j].product]
      BY <1>t, <1>2, <1>6, <2>1, <2>3, <2>4, <3>2 DEF JobsKnow, catalogue
    <3>3. \A i \in Jobs : job'[i].pc = "idle" <=> job'[i].product = NoProduct
      BY <1>t, <1>1, <1>6, <2>1 DEF JobsKnow, RetrievalAssumption
    <3>4. QED
      BY <3>1, <3>2, <3>3 DEF JobsKnow
  <2>6. VectorFollowsText'
    BY <1>t, <1>2, <1>6, <2>3 DEF VectorFollowsText, Busy, catalogue
  <2>7. QED
    BY <1>3, <2>1, <2>2, <2>5, <2>6 DEF IInv
<1>7. ASSUME Become(j, NewJob), lagging' \subseteq Products,
             vector' \in [Products -> Versions \cup {NoVector}],
             \A q \in Products \ {p} : vector'[q] = vector[q] /\ (q \in lagging' <=> q \in lagging),
             p \in lagging' \/ vector'[p] = text[p]
      PROVE  IInv'
  <2>1. job' \in [Jobs -> JobState] /\ job'[j] = NewJob /\ \A i \in Jobs \ {j} : job'[i] = job[i]
    BY <1>t, <1>7, FreshStates, BecomeMoves
  <2>2. CatalogueTyped'
    BY <1>t, <1>2, <1>7 DEF CatalogueTyped, catalogue
  <2>3. NewJob.pc = "idle" /\ NewJob.product = NoProduct
    BY DEF NewJob
  <2>4. JobsKnow'
    <3>1. ASSUME NEW i \in Jobs \ {j}, job[i].pc # "idle"
          PROVE  job[i].product # NoProduct
      BY <1>t, <3>1 DEF JobsKnow
    <3>2. QED
      BY <1>t, <1>2, <2>1, <2>3, <3>1 DEF JobsKnow, catalogue
  <2>5. ASSUME NEW q \in Products \ {p}, Busy(q)' = {} PROVE Busy(q) = {}
    BY <2>1, <2>5 DEF Busy
  <2>6. VectorFollowsText'
    BY <1>t, <1>2, <1>7, <2>5 DEF VectorFollowsText, catalogue
  <2>7. QED
    BY <1>3, <2>1, <2>2, <2>4, <2>6 DEF IInv
<1>0. CASE StartJob(j)
  <2> DEFINE new == [old EXCEPT !.pc = "reading"]
  <2>1. new \in JobState /\ new.pc = "reading" /\ new.product = p /\ new.alone = old.alone
    BY <1>1 DEF JobState
  <2>2. Become(j, new) /\ UNCHANGED <<vector, lagging>>
    BY <1>0 DEF StartJob, Become
  <2> HIDE DEF new, old, p
  <2>3. QED
    BY <1>6, <2>1, <2>2
<1>8. CASE ReadProduct(j)
  <2> DEFINE new == [old EXCEPT !.pc = "embedding", !.version = text[p]]
  <2>1. new \in JobState /\ new.pc = "embedding" /\ new.product = p /\ new.alone = old.alone
        /\ new.version = text[p]
    BY <1>1, <1>5 DEF JobState
  <2>2. Become(j, new) /\ UNCHANGED <<vector, lagging>>
    BY <1>8 DEF ReadProduct, CurrentText
  <2> HIDE DEF new, old, p
  <2>3. QED
    BY <1>6, <2>1, <2>2
<1>9. CASE RetryJob(j)
  <2> DEFINE new == [old EXCEPT !.attempts = @ + 1]
  <2>1. old.attempts + 1 \in 0..MaxAttempts - 1
    BY <1>1, <1>9, RetryCounted DEF RetryJob, JobState
  <2>2. new \in JobState /\ new.pc = old.pc /\ new.product = p /\ new.alone = old.alone
        /\ new.version = old.version /\ old.pc = "embedding"
    BY <1>1, <1>9, <2>1 DEF JobState, RetryJob
  <2>3. Become(j, new) /\ UNCHANGED <<vector, lagging>>
    BY <1>9 DEF RetryJob
  <2> HIDE DEF new, old, p
  <2>4. QED
    BY <1>6, <2>2, <2>3
<1>10. CASE EmbedProduct(j)
  <2> DEFINE new == [old EXCEPT !.pc = "storing", !.attempts = 0]
  <2>1. new \in JobState /\ new.pc = "storing" /\ new.product = p /\ new.alone = old.alone
        /\ new.version = old.version /\ old.pc = "embedding"
    BY <1>1, <1>4, <1>10 DEF JobState, EmbedProduct
  <2>2. Become(j, new) /\ UNCHANGED <<vector, lagging>>
    BY <1>10 DEF EmbedProduct
  <2> HIDE DEF new, old, p
  <2>3. QED
    BY <1>6, <2>1, <2>2
<1>11. CASE DropJob(j)
  BY <1>t, <1>1, <1>7, <1>11 DEF DropJob, CatalogueTyped
<1>12. CASE StoreVector(j)
  <2>1. vector' = [vector EXCEPT ![p] = old.version] /\ Become(j, NewJob) /\ old.pc = "storing"
        /\ lagging' = IF old.alone THEN lagging \ {p} ELSE lagging \cup {p}
    BY <1>12 DEF StoreVector
  <2>2. old.alone => old.version = text[p]
    BY <1>t, <2>1 DEF JobsKnow
  <2> HIDE DEF old, p
  <2>3. vector' \in [Products -> Versions \cup {NoVector}] /\ vector'[p] = old.version
        /\ \A q \in Products \ {p} : vector'[q] = vector[q]
    BY <1>t, <1>1, <1>5, <2>1 DEF CatalogueTyped
  <2>4. lagging' \subseteq Products /\ \A q \in Products \ {p} : q \in lagging' <=> q \in lagging
    BY <1>t, <1>1, <2>1 DEF CatalogueTyped
  <2>5. p \in lagging' \/ vector'[p] = text[p]
    BY <2>1, <2>2, <2>3
  <2>6. QED
    BY <1>7, <2>1, <2>3, <2>4, <2>5
<1>13. QED
  BY <1>0, <1>8, <1>9, <1>10, <1>11, <1>12

(* Every step of a search keeps what it knows. *)
LEMMA SearchStep ==
  ASSUME RetrievalAssumption, IInv, Searching
  PROVE  IInv'
<1>t. CatalogueTyped /\ job \in [Jobs -> JobState] /\ search \in SearchState /\ JobsKnow
      /\ SearchKnows /\ VectorFollowsText
  BY DEF IInv
<1>f. NewSearch \in SearchState /\ NewSearch.steady = {}
  BY FreshStates DEF NewSearch
<1>0. 0 \in 0..MaxAttempts - 1
  BY DEF RetrievalAssumption
<1>1. UNCHANGED <<embedder, catalogue, vector, job, lagging>>
  BY DEF Searching, StartSearch, RetrySearch, EmbedQuery, QueryNotEmbedded, RankFails, SearchFails,
         Rank, Match, QuoteStock
<1>2. CatalogueTyped' /\ job' \in [Jobs -> JobState] /\ JobsKnow' /\ VectorFollowsText'
  BY <1>t, <1>1, JobsUntouched DEF catalogue, CatalogueTyped
<1>3. ASSUME NEW new \in SearchState, Seek(new),
             new.steady = {} \/ (new.steady = search.steady /\ new.terms = search.terms),
             new.steady # {} /\ new.pc \in {"stocking", "done"} => new.found # {}
      PROVE  IInv'
  <2>1. search' = new
    BY <1>3 DEF Seek
  <2>2. SearchKnows'
    BY <1>t, <1>1, <1>3, <2>1 DEF SearchKnows, catalogue
  <2>3. QED
    BY <1>2, <1>3, <2>1, <2>2 DEF IInv
<1>4. ASSUME NEW terms \in BOOLEAN, StartSearch(terms) PROVE IInv'
  <2> DEFINE steady == IF terms THEN {p \in listed : Names(p, text[p])} ELSE {}
             new == [NewSearch EXCEPT !.pc = "embedding", !.terms = terms, !.steady = steady]
  <2>1. steady \subseteq {p \in listed : Names(p, text[p])} /\ steady \subseteq Products
        /\ (steady # {} => terms)
    BY <1>t DEF CatalogueTyped
  <2>2. search' = new
    BY <1>4 DEF StartSearch, Seek
  <2> HIDE DEF steady
  <2>3. new \in SearchState /\ new.steady = steady /\ new.terms = terms /\ new.pc = "embedding"
    BY <1>f, <2>1 DEF SearchState, NewSearch
  <2> HIDE DEF new
  <2>4. SearchKnows'
    BY <1>1, <2>1, <2>2, <2>3 DEF SearchKnows, catalogue
  <2>5. QED
    BY <1>2, <2>2, <2>3, <2>4 DEF IInv
<1>5. CASE RetrySearch
  <2> DEFINE new == [search EXCEPT !.attempts = @ + 1]
  <2>1. search.attempts + 1 \in 0..MaxAttempts - 1
    BY <1>t, <1>5, RetryCounted DEF RetrySearch, SearchState
  <2>2. new \in SearchState /\ new.steady = search.steady /\ new.terms = search.terms
        /\ new.pc = "embedding"
    BY <1>t, <1>5, <2>1 DEF SearchState, RetrySearch
  <2>3. Seek(new)
    BY <1>5 DEF RetrySearch
  <2> HIDE DEF new
  <2>4. QED
    BY <1>3, <2>2, <2>3
<1>6. CASE EmbedQuery \/ QueryNotEmbedded \/ RankFails
  <2>1. PICK pc \in {"ranking", "matching"}, attempts \in 0..MaxAttempts - 1 :
          search' = [search EXCEPT !.pc = pc, !.attempts = attempts]
    <3>1. search.attempts \in 0..MaxAttempts - 1
      BY <1>t DEF SearchState
    <3>2. RankFails => search' = [search EXCEPT !.pc = "matching", !.attempts = search.attempts]
      BY <1>t DEF RankFails, Seek, SearchState
    <3>3. QED
      BY <1>0, <1>6, <3>1, <3>2 DEF EmbedQuery, QueryNotEmbedded, Seek
  <2> DEFINE new == [search EXCEPT !.pc = pc, !.attempts = attempts]
  <2>2. new \in SearchState /\ new.steady = search.steady /\ new.terms = search.terms /\ new.pc = pc
    BY <1>t DEF SearchState
  <2>3. Seek(new)
    BY <2>1 DEF Seek
  <2> HIDE DEF new
  <2>4. QED
    BY <1>3, <2>2, <2>3
<1>7. ASSUME NEW found \in SUBSET Products, Rank(found) \/ Match(found) PROVE IInv'
  <2>1. PICK pc \in {"matching", "stocking"} : search' = [search EXCEPT !.pc = pc, !.found = found]
    BY <1>7 DEF Rank, Match, AfterRanking, Seek
  <2> DEFINE new == [search EXCEPT !.pc = pc, !.found = found]
  <2>2. new \in SearchState /\ new.steady = search.steady /\ new.terms = search.terms
        /\ new.pc = pc /\ new.found = found
    BY <1>t DEF SearchState
  <2>3. Seek(new)
    BY <2>1 DEF Seek
  <2>4. search.steady # {} /\ pc = "stocking" => found # {}
    <3>1. CASE Rank(found)
      <4>1. search'.pc = AfterRanking(found)
        BY <1>t, <3>1 DEF Rank, Seek, SearchState
      <4>2. pc = AfterRanking(found)
        BY <2>1, <2>2, <4>1
      <4>3. QED
        BY <4>2 DEF AfterRanking
    <3>2. CASE Match(found)
      <4>1. search.steady # {} => Worded # {}
        BY <1>t DEF SearchKnows, Worded
      <4>2. Worded \subseteq Products /\ found \in Shown(Worded)
        BY <1>t, <3>2 DEF Worded, Match, CatalogueTyped
      <4>3. QED
        BY <4>1, <4>2, ShowsSome
    <3>3. QED
      BY <1>7, <3>1, <3>2
  <2> HIDE DEF new
  <2>5. QED
    BY <1>3, <2>2, <2>3, <2>4
<1>8. ASSUME NEW offered \in SUBSET Products, QuoteStock(offered) PROVE IInv'
  <2> DEFINE new == [search EXCEPT !.pc = "done", !.offered = offered]
  <2>1. new \in SearchState /\ new.steady = search.steady /\ new.terms = search.terms
        /\ new.found = search.found
    BY <1>t DEF SearchState
  <2>2. Seek(new) /\ search.pc = "stocking"
    BY <1>8 DEF QuoteStock
  <2> HIDE DEF new
  <2>3. QED
    BY <1>t, <1>3, <2>1, <2>2 DEF SearchKnows
<1>9. CASE SearchFails
  <2> DEFINE new == [NewSearch EXCEPT !.pc = "failed"]
  <2>1. new \in SearchState /\ new.steady = {}
    BY <1>f DEF SearchState, NewSearch
  <2>2. Seek(new)
    BY <1>9 DEF SearchFails
  <2> HIDE DEF new
  <2>3. QED
    BY <1>3, <2>1, <2>2
<1>10. QED
  BY <1>4, <1>5, <1>6, <1>7, <1>8, <1>9 DEF Searching

(* A restart loses the jobs and marks their products. *)
LEMMA CrashStep ==
  ASSUME RetrievalAssumption, IInv, Crash
  PROVE  IInv'
<1>t. CatalogueTyped /\ job \in [Jobs -> JobState] /\ JobsKnow /\ VectorFollowsText
  BY DEF IInv
<1>1. ASSUME NEW j \in Jobs, job[j].pc # "idle" PROVE job[j].product \in Products
  <2>1. job[j] \in JobState
    BY <1>t
  <2>2. QED
    BY <1>t, <1>1, <2>1 DEF JobsKnow, JobState
<1>2. lagging' = lagging \cup {job[j].product : j \in {i \in Jobs : job[i].pc # "idle"}}
      /\ job' = [j \in Jobs |-> NewJob] /\ search' = NewSearch
      /\ UNCHANGED <<embedder, text, listed, inStock, edits, vector>>
  BY DEF Crash, Seek, catalogue
<1>3. CatalogueTyped'
  BY <1>t, <1>1, <1>2 DEF CatalogueTyped
<1>4. job' \in [Jobs -> JobState] /\ search' \in SearchState
  BY <1>2, FreshStates
<1>5. JobsKnow' /\ SearchKnows'
  BY <1>2 DEF JobsKnow, SearchKnows, NewJob, NewSearch
<1>6. \A p \in Products \ lagging' : Busy(p) = {}
  BY <1>t, <1>2 DEF Busy, JobsKnow, RetrievalAssumption
<1>7. VectorFollowsText'
  BY <1>t, <1>2, <1>6 DEF VectorFollowsText
<1>8. QED
  BY <1>3, <1>4, <1>5, <1>7 DEF IInv

(* Every step keeps the invariant. *)
LEMMA IInvStep ==
  ASSUME RetrievalAssumption, IInv, [Next]_vars
  PROVE  IInv'
<1>t. CatalogueTyped /\ job \in [Jobs -> JobState] /\ search \in SearchState /\ JobsKnow
      /\ SearchKnows /\ VectorFollowsText
  BY DEF IInv
<1>1. ASSUME NEW j \in Jobs, Embedding(j) PROVE IInv'
  BY <1>1, WriteStep, JobStep DEF Embedding
<1>2. CASE Searching
  BY <1>2, SearchStep
<1>3. ASSUME NEW p \in Products, Unlist(p) PROVE IInv'
  <2>1. search' \in SearchState /\ SearchKnows'
    BY <1>t, <1>3, SteadyShrinks DEF Unlist
  <2>2. CatalogueTyped' /\ job' \in [Jobs -> JobState] /\ JobsKnow' /\ VectorFollowsText'
    BY <1>t, <1>3, JobsUntouched DEF Unlist, CatalogueTyped
  <2>3. QED
    BY <2>1, <2>2 DEF IInv
<1>4. ASSUME NEW p \in Products, ChangeStock(p) PROVE IInv'
  <2>1. search' \in SearchState /\ SearchKnows'
    BY <1>t, <1>4, SearchUntouched DEF ChangeStock
  <2>2. CatalogueTyped' /\ job' \in [Jobs -> JobState] /\ JobsKnow' /\ VectorFollowsText'
    BY <1>t, <1>4, JobsUntouched DEF ChangeStock, CatalogueTyped
  <2>3. QED
    BY <2>1, <2>2 DEF IInv
<1>5. CASE Crash
  BY <1>5, CrashStep
<1>6. CASE UNCHANGED vars
  BY <1>t, <1>6, SearchUntouched, JobsUntouched DEF vars, IInv, CatalogueTyped
<1>7. QED
  BY <1>1, <1>2, <1>3, <1>4, <1>5, <1>6 DEF Next

(* So it always holds. *)
LEMMA Inductive == Spec => []IInv
<1>1. Init => IInv
  BY IInvInit, RetrievalAssumption
<1>2. IInv /\ [Next]_vars => IInv'
  BY IInvStep, RetrievalAssumption
<1>3. QED
  BY <1>1, <1>2, PTL DEF Spec

-----------------------------------------------------------------------------
(* The columns and the handlers hold what they can; no job or search asks  *)
(* the provider more often than its attempts allow (the retry loop of the  *)
(* jina provider, generateAndStoreEmbedding).                              *)
THEOREM TypeCorrect == Spec => []TypeOK
<1>1. IInv => TypeOK
  BY DEF IInv, CatalogueTyped, TypeOK, JobState, SearchState
<1>2. QED
  BY <1>1, Inductive, PTL

(* A product that stays listed and named by the query is never the reason  *)
(* for an empty search, whatever the provider, the vectors and the limits  *)
(* on rows are (retrieve, vectorSearch, textSearch).                       *)
THEOREM MatchFound == Spec => []MatchIsFound
<1>1. IInv => MatchIsFound
  BY DEF IInv, SearchKnows, MatchIsFound
<1>2. QED
  BY <1>1, Inductive, PTL

(* Only a write that threw or was lost before its job started, a failed or *)
(* lost job, or two of them that overlapped leave a vector of another text *)
(* than the product's (generateAndStoreEmbedding, the writes it follows    *)
(* and what they await in between).                                        *)
THEOREM VectorsFollow == Spec => []VectorFollowsText
<1>1. IInv => VectorFollowsText
  BY DEF IInv
<1>2. QED
  BY <1>1, Inductive, PTL
=============================================================================
