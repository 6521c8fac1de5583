--------------------------- MODULE KnowledgeBase ---------------------------
(***************************************************************************)
(* How knowledge gets in and out: load_initial_knowledge_base, which cuts, *)
(* embeds and upserts a corpus; KnowledgeService, which keeps documents in *)
(* the database; generate_rag_answer, which answers from evidence; and the *)
(* OpenRouter client, which tries one model after another.                 *)
(*                                                                         *)
(* External: the embedding provider, the Pinecone index behind             *)
(* PineconeVectorSink, any RetrievalService but KnowledgeRetrievalService, *)
(* the scores of the reranker and the models, each of which may answer     *)
(* anything its caller handles, or fail; and the caller of KnowledgeService,*)
(* which commits after each call and rolls back when one raises.           *)
(* One tenant: namespaces, documents and queries carry its id.             *)
(***************************************************************************)
EXTENDS Chunking, FiniteSets, Sequences, SequencesExt

CONSTANTS
    None,
    NoText,         \* the empty text, before any is cut
    Corpora,        \* what the corpus file may hold: sequences of documents
    MaxLoads,       \* bound: loads of the corpus
    Writer,         \* sessions that upsert and index documents
    Passages,       \* what an external retrieval service may find
    Bodies,         \* texts they write; one may be empty
    TopK,           \* of the query
    MaxEvidence,    \* bound: passages it returns
    Requests,       \* models a request may name, None for the default
    DefaultModel, FallbackModels

VARIABLES
    load,       \* where load_initial_knowledge_base is
    loads,      \* how many have been started
    corpus,     \* the documents read from the file
    queue,      \* those still to be cut and embedded
    vectors,    \* the list that is upserted at the end
    store,      \* what the index holds
    docs,       \* knowledge_documents, by the session that has created them
    known,      \* the copy each session holds of each
    writer,     \* where each session is
    ask         \* the question being answered

loadVars == <<load, loads, corpus, queue, vectors, store>>
docVars == <<docs, known, writer>>
vars == <<chunkVars, loadVars, docVars, ask>>

Document == [source : STRING, text : Text]
Row == [body : Bodies, indexed : BOOLEAN]

\* A text is as chunk_document normalises it.
ASSUME InputsTyped ==
    /\ NoText \in Text /\ NoText.len = 0
    /\ \A docsRead \in Corpora :
          /\ docsRead \in Seq(Document)
          /\ \A n \in DOMAIN docsRead : Normalized(docsRead[n].text)
    /\ Bodies \subseteq Text
    /\ MaxLoads \in Nat
ASSUME ModelsTyped ==
    /\ DefaultModel \in STRING /\ FallbackModels \in Seq(STRING)
    /\ Requests \subseteq STRING \cup {None}
    /\ TopK \in Nat /\ MaxEvidence \in Nat
ASSUME NoneIsNone == None \notin Writer \cup Row \cup STRING

Vector(source, t, c) == [source |-> source, says |-> t.says, start |-> c.start, shown |-> c.shown]

----------------------------------------------------------------------------
\* load_initial_knowledge_base.  The file is read whole; a line without a
\* source, a title or a text raises.
LoadCorpus ==
    /\ load \in {"idle", "loaded", "failed"} /\ loads < MaxLoads
    /\ loads' = loads + 1 /\ vectors' = {}
    /\ \E docsRead \in Corpora :
          /\ corpus' = docsRead /\ queue' = docsRead
          /\ load' = IF \A n \in DOMAIN docsRead : docsRead[n].text.len > 0
                       THEN "next" ELSE "failed"
    /\ UNCHANGED <<chunkVars, store, docVars, ask>>

ChunkDocument ==
    /\ load = "next" /\ queue # <<>>
    /\ Begin(Head(queue).text)
    /\ load' = "chunk"
    /\ UNCHANGED <<loads, corpus, queue, vectors, store, docVars, ask>>

CutChunk ==
    /\ load = "chunk" /\ Cut
    /\ UNCHANGED <<loadVars, docVars, ask>>

\* Mutant: the vectors of this document replace the list.
ExtendReplacing(list, more) == more

Extend(list, more) == list \cup more

\* The provider has embedded the chunks, or failed; a request with a blank
\* text is refused.
Embed ==
    /\ load = "chunk" /\ ~cutting
    /\ \/ /\ \A c \in chunks : c.shown # {}
          /\ vectors' = Extend(vectors, { Vector(Head(queue).source, text, c) : c \in chunks })
          /\ queue' = Tail(queue) /\ load' = "next"
       \/ load' = "failed" /\ UNCHANGED <<vectors, queue>>
    /\ UNCHANGED <<chunkVars, loads, corpus, store, docVars, ask>>

\* One upsert of them all; chunks with the ids of these are overwritten, those
\* of an earlier text stay.
UpsertVectors ==
    /\ load = "next" /\ queue = <<>>
    /\ \/ store' = store \cup vectors /\ load' = "loaded"
       \/ vectors # {} /\ load' = "failed" /\ UNCHANGED store
    /\ UNCHANGED <<chunkVars, loads, corpus, queue, vectors, docVars, ask>>

----------------------------------------------------------------------------
\* KnowledgeService, for the documents of one title: nothing keeps it unique.
Kept == {d \in Writer : docs[d] # None}

Idle == [at |-> "idle", doc |-> None]
Closed == [at |-> "closed", doc |-> None]

\* The session goes on with its copy of a document, if it holds one: neither a
\* commit nor a second read replaces that.
CopyOf(w, d) == IF known[w][d] # None THEN known[w][d] ELSE docs[d]

Hold(w, d, at) ==
    /\ writer' = [writer EXCEPT ![w] = [at |-> at, doc |-> d]]
    /\ known' = [known EXCEPT ![w][d] = CopyOf(w, d)]
    /\ UNCHANGED docs

\* An UPDATE names the columns in which the document differs from what was
\* loaded.
Update(row, copy, new) ==
    [body |-> IF new.body = copy.body THEN row.body ELSE new.body,
     indexed |-> IF new.indexed = copy.indexed THEN row.indexed ELSE new.indexed]

Save(w, d, new) ==
    /\ docs' = [docs EXCEPT ![d] = Update(docs[d], known[w][d], new)]
    /\ known' = [known EXCEPT ![w][d] = new]
    /\ writer' = [writer EXCEPT ![w] = Idle]

\* A rollback, and a session that is closed or let go of: nothing is held.
Rollback(w) ==
    /\ known' = [known EXCEPT ![w] = [d \in Writer |-> None]]
    /\ writer' = [writer EXCEPT ![w] = Idle]
    /\ UNCHANGED docs

\* The SELECT of upsert_document; two rows are more than it expects.
FindDocument(w) ==
    /\ writer[w].at = "idle"
    /\ \/ Cardinality(Kept) > 1 /\ Rollback(w)
       \/ Cardinality(Kept) = 1 /\ \E d \in Kept : Hold(w, d, "found")
       \/ /\ Kept = {} /\ writer' = [writer EXCEPT ![w] = [at |-> "found", doc |-> None]]
          /\ UNCHANGED <<docs, known>>
    /\ UNCHANGED <<chunkVars, loadVars, ask>>

\* Mutant: the mark is not withdrawn.
EditedOnly(copy, body) == [copy EXCEPT !.body = body]

Edited(copy, body) == [body |-> body, indexed |-> FALSE]

UpsertDocument(w) ==
    /\ writer[w].at = "found"
    /\ \E body \in Bodies :
          IF writer[w].doc = None
            THEN LET row == [body |-> body, indexed |-> FALSE]
                 IN  /\ docs' = [docs EXCEPT ![w] = row]
                     /\ known' = [known EXCEPT ![w][w] = row]
                     /\ writer' = [writer EXCEPT ![w] = Idle]
            ELSE Save(w, writer[w].doc, Edited(known[w][writer[w].doc], body))
    /\ UNCHANGED <<chunkVars, loadVars, ask>>

\* index_document: session.get, and the body is cut.
GetDocument(w) ==
    /\ writer[w].at = "idle"
    /\ \E d \in Kept : Hold(w, d, "chunked")
    /\ UNCHANGED <<chunkVars, loadVars, ask>>

\* A body without chunks is marked at once; others are embedded.
IndexDocument(w) ==
    /\ writer[w].at = "chunked"
    /\ LET d == writer[w].doc
           copy == known[w][d]
       IN  \/ copy.body.len = 0 /\ Save(w, d, [copy EXCEPT !.indexed = TRUE])
           \/ copy.body.len > 0 /\ Hold(w, d, "embedded")
    /\ UNCHANGED <<chunkVars, loadVars, ask>>

\* PgvectorSink.upsert reads fields the vectors of to_pinecone_vectors do not
\* have, and raises: no text ever gets into vector_chunks, against
\* docs/AUTONOMOUS_AGENTS.md:28.
UpsertChunks(w) ==
    /\ writer[w].at = "embedded" /\ Rollback(w)
    /\ UNCHANGED <<chunkVars, loadVars, ask>>

\* The provider or the database fails, the caller gives up, or it lets go of
\* what it held.
Forget(w) ==
    /\ writer[w].at \in {"idle", "found", "chunked"} /\ Rollback(w)
    /\ UNCHANGED <<chunkVars, loadVars, ask>>

----------------------------------------------------------------------------
\* generate_rag_answer.
Unasked == [at |-> "idle", requested |-> None, reranked |-> FALSE, evidence |-> <<>>,
            models |-> <<>>, failures |-> <<>>, model |-> None]

\* KnowledgeRetrievalService subscripts the dataclasses it gets from
\* hybrid_search: it raises at the first hit, and returns only when there is
\* none.
KnowledgeHits == {<<>>}

\* Any other implementation of RetrievalService.
ExternalHits ==
    {found \in UNION {[1 .. n -> Passages] : n \in 0 .. MaxEvidence} :
        \A i, j \in DOMAIN found : found[i] = found[j] => i = j}

Search ==
    /\ ask.at = "idle"
    /\ \/ \E found \in KnowledgeHits \cup ExternalHits, reranker \in BOOLEAN :
             ask' = [ask EXCEPT !.at = IF reranker /\ found # <<>> THEN "rerank" ELSE "ground",
                                !.evidence = found]
       \/ ask' = [ask EXCEPT !.at = "failed"]
    /\ UNCHANGED <<chunkVars, loadVars, docVars>>

\* The reranker orders what it is given by its scores and keeps the first TopK.
Rerank ==
    /\ ask.at = "rerank"
    /\ \/ LET size == Len(ask.evidence)
              kept == IF size < TopK THEN size ELSE TopK
          IN  \E order \in [1 .. kept -> 1 .. size] :
                /\ \A i, j \in 1 .. kept : order[i] = order[j] => i = j
                /\ ask' = [ask EXCEPT !.at = "ground", !.reranked = TRUE,
                                      !.evidence = [i \in 1 .. kept |-> @[order[i]]]]
       \/ ask' = [ask EXCEPT !.at = "failed"]
    /\ UNCHANGED <<chunkVars, loadVars, docVars>>

Named(requested) ==
    <<IF requested \notin {None, ""} THEN requested ELSE DefaultModel>> \o FallbackModels

\* Mutant: a model that is named twice is tried twice.
CandidateModelsRaw(requested) == Named(requested)

\* _candidate_models: the loop that keeps each model once, none without a name.
CandidateModels(requested) ==
    LET named == Named(requested)
        kept[n \in 0 .. Len(named)] ==
            IF n = 0 THEN <<>>
            ELSE IF named[n] = "" \/ named[n] \in ToSet(kept[n - 1]) THEN kept[n - 1]
            ELSE Append(kept[n - 1], named[n])
    IN  kept[Len(named)]

\* Nothing is asked of a model when there is no evidence.  generate_rag_answer
\* names no model, other callers of the client may.
Ground ==
    /\ ask.at = "ground"
    /\ \/ ask.evidence = <<>> /\ ask' = [ask EXCEPT !.at = "no evidence"]
       \/ /\ ask.evidence # <<>>
          /\ \E requested \in Requests :
                LET models == CandidateModels(requested)
                IN  ask' = [ask EXCEPT !.at = IF models = <<>> THEN "all failed" ELSE "complete",
                                       !.requested = requested, !.models = models]
    /\ UNCHANGED <<chunkVars, loadVars, docVars>>

\* One request to the next model: it answers; or it cannot be reached, takes
\* too long, refuses or says nothing, and the next is tried; or its answer is
\* not JSON, which nothing catches.
CompleteOnce ==
    /\ ask.at = "complete"
    /\ LET model == ask.models[Len(ask.failures) + 1]
       IN  \/ ask' = [ask EXCEPT !.at = "answered", !.model = model]
           \/ ask' = [ask EXCEPT !.failures = Append(@, model),
                                 !.at = IF Len(ask.failures) + 1 = Len(ask.models)
                                          THEN "all failed" ELSE "complete"]
           \/ ask' = [ask EXCEPT !.at = "raised", !.model = model]
    /\ UNCHANGED <<chunkVars, loadVars, docVars>>

----------------------------------------------------------------------------
\* Bound: the corpus, the documents and the questions share nothing, so that
\* only one of them is at work in a behaviour.
Init ==
    /\ ChunkInit(NoText)
    /\ load = "idle" /\ corpus = <<>> /\ queue = <<>>
    /\ vectors = {} /\ store = {}
    /\ docs = [w \in Writer |-> None]
    /\ known = [w \in Writer |-> [d \in Writer |-> None]]
    /\ \E part \in {"corpus", "documents", "questions"} :
          /\ loads = IF part = "corpus" THEN 0 ELSE MaxLoads
          /\ writer = [w \in Writer |-> IF part = "documents" THEN Idle ELSE Closed]
          /\ ask = IF part = "questions" THEN Unasked ELSE [Unasked EXCEPT !.at = "failed"]

Load == ChunkDocument \/ CutChunk \/ Embed \/ UpsertVectors
Answer == Rerank \/ Ground \/ CompleteOnce

Next ==
    \/ LoadCorpus \/ Load \/ Search \/ Answer
    \/ \E w \in Writer :
          \/ FindDocument(w) \/ UpsertDocument(w)
          \/ GetDocument(w) \/ IndexDocument(w) \/ UpsertChunks(w)
          \/ Forget(w)

\* What has begun goes on: the loops are ordinary code, the HTTP client gives
\* up after its timeout, and the model threads end.
Spec == Init /\ [][Next]_vars /\ WF_vars(Load) /\ WF_vars(Answer)

----------------------------------------------------------------------------
\* Every variable keeps its type.
TypeOK ==
    /\ text \in Text /\ Normalized(text) /\ start \in Nat /\ cutting \in BOOLEAN
    /\ \A c \in chunks : c.start < c.end /\ c.end <= text.len /\ c.end - c.start <= MaxChars
    /\ load \in {"idle", "next", "chunk", "loaded", "failed"} /\ loads \in 0 .. MaxLoads
    /\ \A v \in vectors \cup store : v.shown # {}
    /\ \A w \in Writer :
          /\ docs[w] # None => docs[w] \in Row
          /\ \A d \in Writer : known[w][d] # None => known[w][d] \in Row /\ docs[d] # None
          /\ writer[w].at \in {"closed", "idle", "found", "chunked", "embedded"}
    /\ ask.at \in {"idle", "rerank", "ground", "complete", "no evidence", "answered",
                   "all failed", "raised", "failed"}

\* What a load says it has indexed can be found: after one that ends well every
\* character of every document of the corpus that is not blank is shown by
\* some chunk of that document.
Findable ==
    load = "loaded" =>
      \A n \in DOMAIN corpus :
         Covers({v \in store : v.source = corpus[n].source /\ v.says = corpus[n].text.says},
                corpus[n].text)

\* An edit withdraws the mark: a document that is marked as indexed is not
\* given another body and left marked, except by a session that holds a copy
\* from before it was marked, whose UPDATE does not name the column.  (A mark
\* set after the edit, from a copy of before, is not withdrawn by anybody.)
EditUnmarks ==
    [][\A d \in Kept :
          docs'[d].body # docs[d].body /\ docs'[d].indexed =>
             \E w \in Writer : /\ writer[w] = [at |-> "found", doc |-> d]
                               /\ docs[d].indexed /\ ~known[w][d].indexed]_docs

\* The models that have been asked, in order: all but the last one failed.
Tried == IF ask.model = None THEN ask.failures ELSE Append(ask.failures, ask.model)

\* Models are asked one after another, each once and only when all those named
\* before it, the requested or else the default one first, have failed; it is
\* said that all have failed only when every one of them has.  A request ends
\* with models left in one way only besides an answer: at a model whose answer
\* is not JSON.  None is asked without evidence, of which reranking leaves no
\* more than TopK.
AnswerBacked ==
    LET named == Named(ask.requested)
    IN  /\ \A p, q \in DOMAIN Tried : Tried[p] = Tried[q] => p = q
        /\ \A p \in DOMAIN Tried :
              \E a \in DOMAIN named :
                 /\ named[a] = Tried[p]
                 /\ \A b \in 1 .. a - 1 : named[b] # "" => \E q \in 1 .. p - 1 : Tried[q] = named[b]
        /\ ask.at = "all failed" => ToSet(named) \ {""} = ToSet(ask.failures)
        /\ ask.at \in {"answered", "raised"} <=> ask.model # None
        /\ ask.at \in {"no evidence", "failed"} => Tried = <<>>
        /\ Tried # <<>> => ask.evidence # <<>>
        /\ ask.reranked => Len(ask.evidence) <= TopK

\* Every load and every question comes to an end.
Ends ==
    /\ load \in {"next", "chunk"} ~> load \in {"loaded", "failed"}
    /\ ask.at \in {"rerank", "ground", "complete"} ~>
         ask.at \in {"no evidence", "answered", "all failed", "raised", "failed"}
=============================================================================
