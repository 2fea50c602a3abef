----------------------------- MODULE Retrieval -----------------------------
(***************************************************************************)
(* The search of a tenant's catalogue for a message, and the embeddings it *)
(* searches by (ProductRetrieverService, the embedding providers).         *)
(*                                                                         *)
(* A request that writes a product starts, once its other writes are done, *)
(* a background job that reads the product, has its text embedded and      *)
(* stores the vector; request and job are one handler here.  Those of one  *)
(* product are not ordered, and die with the process.  A search embeds the *)
(* query, ranks the vectors, and falls back to matching words.  Texts are  *)
(* versions; what a query names and what is similar to it are relations.   *)
(***************************************************************************)
EXTENDS Integers, FiniteSets, FiniteSetsExt

CONSTANTS
  Products,        (* the tenant's products                                  *)
  Jobs,            (* writes and their embedding jobs under way at once      *)
  Embedders,       (* EMBEDDING_PROVIDERs a deployment may have              *)
  MaxEdits,        (* bound on the writes of products                        *)
  MaxAttempts,     (* JINA_MAX_ATTEMPTS                                      *)
  TopK,            (* TOP_K                                                  *)
  MaxAlternatives, (* MAX_ALTERNATIVES                                       *)
  Named,           (* product texts that contain a term of the query         *)
  Similar,         (* product texts as similar to the query as the floor asks *)
  NoVector,        (* embedding NULL                                         *)
  NoProduct        (* the product of no job                                  *)

VARIABLES
  embedder, (* the embedding provider configured                             *)
  text,     (* product -> version of its text                                *)
  listed,   (* products active and not deleted                               *)
  inStock,  (* products whose resolved stock is positive                     *)
  vector,   (* product -> the version its stored vector was made of          *)
  job,      (* the writes under way and the embedding jobs they start        *)
  search,   (* a message's retrieval                                         *)
  lagging,  (* products whose last write or job failed, was lost or overlapped *)
  edits     (* writes of products so far                                     *)

vars == <<embedder, text, listed, inStock, vector, job, search, lagging, edits>>
catalogue == <<text, listed, inStock, edits>>

Versions == 0..MaxEdits

ASSUME RetrievalAssumption ==
  /\ IsFiniteSet(Products)
  /\ MaxEdits \in Nat
  /\ MaxAttempts \in Nat \ {0}
  /\ TopK \in Nat \ {0}
  /\ MaxAlternatives \in Nat \ {0}
  /\ Embedders \subseteq {"none", "jina"}
  /\ Named \subseteq Products \X Versions
  /\ Similar \subseteq Products \X Versions
  /\ NoVector \notin Versions
  /\ NoProduct \notin Products

NewJob == [pc |-> "idle", product |-> NoProduct, version |-> 0, attempts |-> 0, alone |-> TRUE]
NewSearch ==
  [pc |-> "idle", terms |-> FALSE, attempts |-> 0, found |-> {}, offered |-> {}, steady |-> {}]

Init ==
  /\ embedder \in Embedders
  /\ text = [p \in Products |-> 0]
  /\ listed \in SUBSET Products
  /\ inStock \in SUBSET Products
  /\ vector \in [Products -> {NoVector, 0}]
  /\ job = [j \in Jobs |-> NewJob]
  /\ search = NewSearch
  /\ lagging = {}
  /\ edits = 0

-----------------------------------------------------------------------------
(* Writes of the catalogue, and the jobs they leave. *)
Busy(p) == {j \in Jobs : job[j].product = p}
Names(p, version) == <<p, version>> \in Named

(* What a search under way may still count on. *)
StillSteady(names, shown) ==
  search' = [search EXCEPT !.steady = {p \in @ : p \in shown /\ Names(p, names[p])}]

(* createProduct, updateProduct or a product of syncProducts: the row is   *)
(* written, and the default variant, the audit entry and the other         *)
(* products of a synchronisation are still to come.                        *)
WriteProduct(j, p, shown) ==
  /\ edits < MaxEdits
  /\ job[j].pc = "idle"
  /\ edits' = edits + 1
  /\ text' = [text EXCEPT ![p] = edits + 1]
  /\ listed' = IF shown THEN listed \cup {p} ELSE listed \ {p}
  /\ job' = [i \in Jobs |->
               IF i = j THEN [NewJob EXCEPT !.pc = "written", !.product = p, !.alone = Busy(p) = {}]
               ELSE IF i \in Busy(p) THEN [job[i] EXCEPT !.alone = FALSE]
               ELSE job[i]]
  /\ StillSteady(text', listed')
  /\ UNCHANGED <<embedder, inStock, vector, lagging>>

Unlist(p) ==
  /\ p \in listed
  /\ listed' = listed \ {p}
  /\ StillSteady(text, listed')
  /\ UNCHANGED <<embedder, text, inStock, vector, job, lagging, edits>>

ChangeStock(p) ==
  /\ inStock' = IF p \in inStock THEN inStock \ {p} ELSE inStock \cup {p}
  /\ UNCHANGED <<embedder, text, listed, vector, job, search, lagging, edits>>

-----------------------------------------------------------------------------
(* generateAndStoreEmbedding *)
Become(j, new) == job' = [job EXCEPT ![j] = new]

(* VectorFollowsText: the text is the one loaded before the update. *)
LoadedText(p) == IF text[p] = 0 THEN 0 ELSE text[p] - 1

CurrentText(p) == text[p]

StartJob(j) ==
  /\ job[j].pc = "written"
  /\ Become(j, [job[j] EXCEPT !.pc = "reading"])
  /\ UNCHANGED <<embedder, catalogue, vector, search, lagging>>

ReadProduct(j) ==
  /\ job[j].pc = "reading"
  /\ Become(j, [job[j] EXCEPT !.pc = "embedding", !.version = CurrentText(job[j].product)])
  /\ UNCHANGED <<embedder, catalogue, vector, search, lagging>>

(* TypeOK: the last attempt is retried as well. *)
MayRetryPastLast(attempts) == embedder = "jina" /\ attempts < MaxAttempts

(* The provider asks again after a transient failure while attempts are left. *)
MayRetry(attempts) == embedder = "jina" /\ attempts + 1 < MaxAttempts

RetryJob(j) ==
  /\ job[j].pc = "embedding" /\ MayRetry(job[j].attempts)
  /\ Become(j, [job[j] EXCEPT !.attempts = @ + 1])
  /\ UNCHANGED <<embedder, catalogue, vector, search, lagging>>

EmbedProduct(j) ==
  /\ job[j].pc = "embedding" /\ embedder = "jina"
  /\ Become(j, [job[j] EXCEPT !.pc = "storing", !.attempts = 0])
  /\ UNCHANGED <<embedder, catalogue, vector, search, lagging>>

(* The request throws after the product's row and starts no job; the read  *)
(* outside the try throws; no key, a failed call, a vector of the wrong    *)
(* width; the write fails: the column keeps what it held.                  *)
DropJob(j) ==
  /\ job[j].pc # "idle"
  /\ lagging' = lagging \cup {job[j].product}
  /\ Become(j, NewJob)
  /\ UNCHANGED <<embedder, catalogue, vector, search>>

StoreVector(j) ==
  LET p == job[j].product IN
  /\ job[j].pc = "storing"
  /\ vector' = [vector EXCEPT ![p] = job[j].version]
  /\ lagging' = IF job[j].alone THEN lagging \ {p} ELSE lagging \cup {p}
  /\ Become(j, NewJob)
  /\ UNCHANGED <<embedder, catalogue, search>>

-----------------------------------------------------------------------------
(* retrieve *)
Seek(new) == search' = new
Shown(rows) == {found \in SUBSET rows : Cardinality(found) = Min({TopK, Cardinality(rows)})}

StartSearch(terms) ==
  /\ search.pc \in {"idle", "done", "failed"}
  /\ Seek([NewSearch EXCEPT !.pc = "embedding", !.terms = terms,
                            !.steady = IF terms THEN {p \in listed : Names(p, text[p])} ELSE {}])
  /\ UNCHANGED <<embedder, catalogue, vector, job, lagging>>

RetrySearch ==
  /\ search.pc = "embedding" /\ MayRetry(search.attempts)
  /\ Seek([search EXCEPT !.attempts = @ + 1])
  /\ UNCHANGED <<embedder, catalogue, vector, job, lagging>>

EmbedQuery ==
  /\ search.pc = "embedding" /\ embedder = "jina"
  /\ Seek([search EXCEPT !.pc = "ranking", !.attempts = 0])
  /\ UNCHANGED <<embedder, catalogue, vector, job, lagging>>

(* Without a vector of the query the vector search has no rows. *)
QueryNotEmbedded ==
  /\ search.pc = "embedding"
  /\ Seek([search EXCEPT !.pc = "matching", !.attempts = 0])
  /\ UNCHANGED <<embedder, catalogue, vector, job, lagging>>

Near == {p \in listed : vector[p] # NoVector /\ <<p, vector[p]>> \in Similar}

(* MatchIsFound: a search that ranks no vector ends there. *)
AfterRankingEnds(found) == "stocking"

AfterRanking(found) == IF found = {} THEN "matching" ELSE "stocking"

Rank(found) ==
  /\ search.pc = "ranking" /\ found \in Shown(Near)
  /\ Seek([search EXCEPT !.pc = AfterRanking(found), !.found = found])
  /\ UNCHANGED <<embedder, catalogue, vector, job, lagging>>

RankFails ==
  /\ search.pc = "ranking"
  /\ Seek([search EXCEPT !.pc = "matching"])
  /\ UNCHANGED <<embedder, catalogue, vector, job, lagging>>

(* Text search: any of the query's terms in name, description or sku. *)
Worded == IF search.terms THEN {p \in listed : Names(p, text[p])} ELSE {}

Match(found) ==
  /\ search.pc = "matching" /\ found \in Shown(Worded)
  /\ Seek([search EXCEPT !.pc = "stocking", !.found = found])
  /\ UNCHANGED <<embedder, catalogue, vector, job, lagging>>

(* applyVariantStock, then what softAlternatives would offer of it. *)
Offer(found) ==
  {some \in SUBSET (found \cap inStock) :
     Cardinality(some) = Min({MaxAlternatives, Cardinality(found \cap inStock)})}

QuoteStock(offered) ==
  /\ search.pc = "stocking" /\ offered \in Offer(search.found)
  /\ Seek([search EXCEPT !.pc = "done", !.offered = offered])
  /\ UNCHANGED <<embedder, catalogue, vector, job, lagging>>

(* A database failure after the fallback is the caller's. *)
SearchFails ==
  /\ search.pc \in {"matching", "stocking"}
  /\ Seek([NewSearch EXCEPT !.pc = "failed"])
  /\ UNCHANGED <<embedder, catalogue, vector, job, lagging>>

-----------------------------------------------------------------------------
(* The process restarts: jobs and searches are gone. *)
Crash ==
  /\ lagging' = lagging \cup {job[j].product : j \in {i \in Jobs : job[i].pc # "idle"}}
  /\ job' = [j \in Jobs |-> NewJob]
  /\ Seek(NewSearch)
  /\ UNCHANGED <<embedder, catalogue, vector>>

Embedding(j) ==
  \/ \E p \in Products, shown \in BOOLEAN : WriteProduct(j, p, shown)
  \/ StartJob(j) \/ ReadProduct(j) \/ RetryJob(j) \/ EmbedProduct(j) \/ DropJob(j) \/ StoreVector(j)

Searching ==
  \/ \E terms \in BOOLEAN : StartSearch(terms)
  \/ RetrySearch \/ EmbedQuery \/ QueryNotEmbedded \/ RankFails \/ SearchFails
  \/ \E some \in SUBSET Products : Rank(some) \/ Match(some) \/ QuoteStock(some)

Next ==
  \/ \E j \in Jobs : Embedding(j)
  \/ Searching
  \/ \E p \in Products : Unlist(p) \/ ChangeStock(p)
  \/ Crash

Spec == Init /\ [][Next]_vars

-----------------------------------------------------------------------------
(* The variables hold what the columns and the handlers can; every vector  *)
(* was made of some version of its product's text.                         *)
TypeOK ==
  /\ embedder \in Embedders
  /\ text \in [Products -> Versions]
  /\ listed \subseteq Products
  /\ inStock \subseteq Products
  /\ vector \in [Products -> Versions \cup {NoVector}]
  /\ job \in [Jobs -> [pc : {"idle", "written", "reading", "embedding", "storing"},
                       product : Products \cup {NoProduct}, version : Versions,
                       attempts : 0..MaxAttempts - 1, alone : BOOLEAN]]
  /\ search \in [pc : {"idle", "embedding", "ranking", "matching", "stocking", "done", "failed"},
                 terms : BOOLEAN, attempts : 0..MaxAttempts - 1, found : SUBSET Products,
                 offered : SUBSET Products, steady : SUBSET Products]
  /\ lagging \subseteq Products
  /\ edits \in 0..MaxEdits

(* A product that was listed and named by the query from the start of a    *)
(* search to its end does not leave it without a product, whatever the     *)
(* embedding provider, the vectors and the vector search do: every way out *)
(* of the vector search that finds nothing goes on to the words.           *)
MatchIsFound == search.pc = "done" /\ search.steady # {} => search.found # {}

(* When neither a write of a product nor a job is under way its vector is  *)
(* of its current text or absent, but for a product whose last write threw *)
(* or was lost in a restart before its job started, whose last job failed  *)
(* or was lost, or for which two of them overlapped: nothing clears or     *)
(* remakes a stale vector, until a write and a job that ran alone.         *)
VectorFollowsText ==
  \A p \in Products \ lagging : Busy(p) = {} => vector[p] \in {NoVector, text[p]}
=============================================================================
