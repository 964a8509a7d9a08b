------------------------------ MODULE Retrieval ------------------------------
(* From documents to answers: how a document is cut into chunks (cut), how  *)
(* chunks are indexed and questions answered from them while both run       *)
(* (vectors, adds, asks), how an upload is spooled and processed behind its *)
(* answer (spool, uploads, kept), and how batches of chunks are merged into *)
(* the rows of the vector database (rows, batches, applied).                *)
EXTENDS Naturals, Sequences, FiniteSets, SequencesExt, TLC

CONSTANTS
    Letter,         \* a character that is no separator
    TextLength,     \* bound: the longest text that is cut
    Sizes,          \* chunk sizes and overlaps tried, <<size, overlap>> with overlap < size
    LineSizes,      \* lengths of the lines of a document of the repository
    Roots,          \* roots of the repository's documents: [exists, directory, hidden]
    FilesOf(_),     \* files under a root, in order: [hidden, supported, blank, score]
    Adds, Asks,     \* requests that index a document, and questions
    Relevance(_, _),\* Relevance(ask, add): the score of that document for that question
    TopK, MinScore, \* of a question
    BlockSize, MaxContext,  \* characters of a document's block in a context, and of a context
    Uploads, Names, \* uploads and the names their spooled files may get
    Ids, Batches,   \* rows of the vector database, and sessions that merge chunks into it
    BatchOf         \* the chunks of a batch: a sequence of [id, tenant, vector]

VARIABLES cut, vectors, adds, asks, spool, uploads, kept, rows, batches, applied

-----------------------------------------------------------------------------
(* Cutting.  A text is a sequence of characters; a window is the pair of    *)
(* its start (excluded) and its end.                                        *)

Blank == {" ", "n"}
Chars == {Letter, ".", " ", "n"}
Texts == UNION {[1 .. n -> Chars] : n \in 0 .. TextLength}
Window(a, b) == [start |-> a, end |-> b]
Part(text, w) == SubSeq(text, w.start + 1, w.end)
Ink(s) == {i \in DOMAIN s : s[i] \notin Blank}

\* Runs of blanks become one, of line ends at most two, and none is left at the ends.
CleanText(text) ==
    LET Repeats(i) == \/ text[i] = " " /\ text[i - 1] = " "
                      \/ text[i] = "n" /\ i > 2 /\ text[i - 1] = "n" /\ text[i - 2] = "n"
        inner == {i \in DOMAIN text : (\E j \in Ink(text) : j <= i) /\ (\E j \in Ink(text) : i <= j)}
        left == {i \in inner : i > 1 => ~Repeats(i)}
    IN  FoldLeft(LAMBDA out, i : IF i \in left THEN Append(out, text[i]) ELSE out,
                 <<>>, [i \in DOMAIN text |-> i])

\* Mutant of TextWindows: the next window starts a character too late.
TextWindows_Late(n, size, overlap) ==
    LET From[a \in 0 .. n + 1] == IF a + size >= n THEN <<Window(a, n)>>
                                  ELSE <<Window(a, a + size)>> \o From[a + size - overlap + 1]
    IN  From[0]

\* Windows of a size, each starting overlap before the end of the one before, up to the end.
TextWindows(n, size, overlap) ==
    LET From[a \in 0 .. n] == IF a + size >= n THEN <<Window(a, n)>>
                              ELSE <<Window(a, a + size)>> \o From[a + size - overlap]
    IN  From[0]
PageChunks(text, size, overlap) ==
    IF text = <<>> THEN <<>>
    ELSE SelectSeq(TextWindows(Len(text), size, overlap), LAMBDA w : Ink(Part(text, w)) # {})
FixedChunks(text, size, overlap) == TextWindows(Len(text), size, overlap)

\* The processor's windows start every size - overlap characters until the text ends.
StridedChunks(text, size, overlap) ==
    LET n == Len(text)
        From[a \in Nat] == IF a >= n THEN <<>>
                           ELSE <<Window(a, IF a + size < n THEN a + size ELSE n)>> \o From[a + size - overlap]
    IN  From[0]

\* Lines of a repository's document are gathered until the next one does not fit; a
\* chunk then starts with the last lines of the one before that fit in the overlap.
LineTotal(lens, lines) == FoldLeft(LAMBDA n, l : n + lens[l] + 1, 0, lines)
OverlapLines(lens, lines, overlap) ==
    LET fit == {k \in 1 .. Len(lines) : LineTotal(lens, SubSeq(lines, k, Len(lines))) <= overlap}
    IN  IF fit = {} THEN <<>> ELSE SubSeq(lines, CHOOSE k \in fit : \A j \in fit : k <= j, Len(lines))
LineChunks(lens, size, overlap) ==
    LET Flush(acc, last) == Append(acc.out, [start |-> acc.start, end |-> last, lines |-> acc.current])
        Take(acc, l) ==
            LET kept_lines == OverlapLines(lens, acc.current, overlap)
            IN  IF acc.current # <<>> /\ LineTotal(lens, acc.current) + lens[l] + 1 > size
                THEN [out |-> Flush(acc, l - 1), current |-> Append(kept_lines, l),
                      start |-> IF l > Len(kept_lines) THEN l - Len(kept_lines) ELSE 1]
                ELSE [acc EXCEPT !.current = Append(@, l)]
        end == FoldLeft(Take, [out |-> <<>>, current |-> <<>>, start |-> 1], [l \in DOMAIN lens |-> l])
    IN  IF end.current = <<>> THEN end.out ELSE Flush(end, Len(lens))

\* str.split: the pieces between the occurrences of a separator, and every character for "".
SplitBy(text, sep) ==
    LET Found(i) == SubSeq(text, i, i + Len(sep) - 1) = sep
        From[i \in 1 .. Len(text) + 1] ==
            LET at == {k \in i .. Len(text) + 1 - Len(sep) : Found(k)}
                first == CHOOSE k \in at : \A m \in at : k <= m
            IN  IF at = {} THEN <<SubSeq(text, i, Len(text))>>
                ELSE <<SubSeq(text, i, first - 1)>> \o From[first + Len(sep)]
    IN  IF sep = <<>> THEN [i \in DOMAIN text |-> <<text[i]>>] ELSE From[1]
Separators == << <<"n", "n">>, <<"n">>, <<".", " ">>, <<" ">>, <<>> >>

\* Pieces between the first separator that occurs are merged up to the size; only a piece
\* that comes when nothing is gathered is split further, by the separators after the first.
SplitRecursive(whole, size, separators) ==
    LET split[text \in Seq(Chars), n \in Nat] ==
          LET seps == SubSeq(separators, n, Len(separators))
              occurs == {k \in DOMAIN seps : seps[k] = <<>> \/ Len(SplitBy(text, seps[k])) > 1}
              sep == seps[CHOOSE k \in occurs : \A j \in occurs : k <= j]
              Merge(acc, piece) ==
                LET merged == IF acc.current = <<>> THEN piece ELSE acc.current \o sep \o piece
                IN  IF Len(merged) <= size THEN [acc EXCEPT !.current = merged]
                    ELSE IF acc.current # <<>> THEN [out |-> Append(acc.out, acc.current), current |-> piece]
                    ELSE [acc EXCEPT !.out = @ \o (IF Len(seps) > 1 THEN split[piece, n + 1] ELSE <<piece>>)]
              end == FoldLeft(Merge, [out |-> <<>>, current |-> <<>>], SplitBy(text, sep))
          IN  IF Len(text) <= size THEN <<text>>
              ELSE IF end.current = <<>> THEN end.out ELSE Append(end.out, end.current)
    IN  split[whole, 1]

\* Sentences stay together while they are like the first of their chunk; parts of a
\* Markdown text until the next header, blank parts left out.  Both as letters to compare.
Gather(units, Starts(_, _)) ==
    FoldLeft(LAMBDA out, u : IF out = <<>> \/ Starts(Last(out)[1], u) THEN Append(out, <<u>>)
                             ELSE Append(Front(out), Append(Last(out), u)), <<>>, units)
SemanticChunks(sentences) == Gather(sentences, LAMBDA first, s : s # first)
MarkdownChunks(parts) ==
    Gather(SelectSeq(parts, LAMBDA p : p \notin Blank), LAMBDA first, p : p = ".")

NoCut == [by |-> "none"]
CutText ==
    /\ cut = NoCut
    /\ \E text \in Texts, p \in Sizes :
        \/ LET clean == CleanText(text)
           IN  cut' = [by |-> "page", text |-> clean, p |-> p, out |-> PageChunks(clean, p[1], p[2])]
        \/ cut' = [by |-> "fixed", text |-> text, p |-> p, out |-> FixedChunks(text, p[1], p[2])]
        \/ cut' = [by |-> "strided", text |-> text, p |-> p, out |-> StridedChunks(text, p[1], p[2])]
        \/ cut' = [by |-> "recursive", text |-> text, p |-> p, out |-> SplitRecursive(text, p[1], Separators)]
        \/ cut' = [by |-> "semantic", text |-> text, p |-> p, out |-> SemanticChunks(text)]
        \/ cut' = [by |-> "markdown", text |-> text, p |-> p, out |-> MarkdownChunks(text)]
    /\ UNCHANGED <<vectors, adds, asks, spool, uploads, kept, rows, batches, applied>>
CutLines ==
    /\ cut = NoCut
    /\ \E lens \in UNION {[1 .. n -> LineSizes] : n \in 0 .. TextLength}, p \in Sizes :
         cut' = [by |-> "lines", text |-> lens, p |-> p, out |-> LineChunks(lens, p[1], p[2])]
    /\ UNCHANGED <<vectors, adds, asks, spool, uploads, kept, rows, batches, applied>>

-----------------------------------------------------------------------------
(* Answering.  The index is the sequence of the chunks added, one for each  *)
(* document; a request waits for the embedding provider before it adds or   *)
(* searches, and a question then for the language model.                    *)

answerVars == <<vectors, adds, asks>>
Others == UNCHANGED <<cut, spool, uploads, kept, rows, batches, applied>>

\* Chunks by falling score, equal ones as they come; those that pass, the first TopK.
Best(chunks, Score(_), Passes(_)) ==
    LET order == SortSeq([i \in DOMAIN chunks |-> i],
                         LAMBDA i, j : \/ Score(chunks[i]) > Score(chunks[j])
                                       \/ Score(chunks[i]) = Score(chunks[j]) /\ i < j)
        found == SelectSeq(order, LAMBDA i : Passes(chunks[i]))
    IN  [k \in 1 .. (IF Len(found) < TopK THEN Len(found) ELSE TopK) |-> chunks[found[k]]]

\* Mutant of Search: the first TopK are taken before the chunks are put in order.
Search_FirstAdded(ask, chunks) ==
    SelectSeq(SubSeq(chunks, 1, IF Len(chunks) < TopK THEN Len(chunks) ELSE TopK),
              LAMBDA d : Relevance(ask, d) >= MinScore)

Search(ask, chunks) ==
    Best(chunks, LAMBDA d : Relevance(ask, d), LAMBDA d : Relevance(ask, d) >= MinScore)

\* The repository's documents: every file of a directory that is not hidden, as any part
\* of its path may hide it; a root that is a file is never hidden.  Each is one chunk here.
Loads(root, f) == (root.directory => ~root.hidden /\ ~f.hidden) /\ f.supported /\ ~f.blank
LoadDocuments(roots) ==
    FoldLeft(LAMBDA out, r : out \o SelectSeq(FilesOf(r), LAMBDA f : Loads(r, f)), <<>>, roots)
QueryRepository ==
    /\ cut = NoCut
    /\ \E roots \in UNION {[1 .. n -> Roots] : n \in 0 .. 2} :
         cut' = [by |-> "cited", roots |-> roots,
                 answer |-> IF roots = <<>> THEN "unavailable"
                            ELSE IF \E r \in Range(roots) : ~r.exists THEN "invalid" ELSE "answered",
                 out |-> IF \E r \in Range(roots) : ~r.exists THEN <<>>
                         ELSE Best(LoadDocuments(roots), LAMBDA f : f.score, LAMBDA f : f.score > 0)]
    /\ UNCHANGED <<vectors, adds, asks, spool, uploads, kept, rows, batches, applied>>

\* Lengths of the blocks of a context: a block that is longer than what remains is cut to
\* three characters less and "..." is appended, nothing is added once nothing remains.
ContextWindow(chunks) ==
    LET Block(acc, c) ==
            LET cut_to == IF acc.remaining > 3 THEN acc.remaining ELSE 3
                len == IF BlockSize > acc.remaining THEN cut_to ELSE BlockSize
            IN  IF acc.remaining <= 0 THEN acc
                ELSE [blocks |-> Append(acc.blocks, len), remaining |-> acc.remaining - len - 2]
    IN  FoldLeft(Block, [blocks |-> <<>>, remaining |-> MaxContext], chunks).blocks

StartIndexing(d) ==
    /\ adds[d] = "idle" /\ adds' = [adds EXCEPT ![d] = "embedding"]
    /\ UNCHANGED <<vectors, asks>> /\ Others
IndexDocuments(d) ==
    /\ adds[d] = "embedding"
    /\ \/ vectors' = Append(vectors, d) /\ adds' = [adds EXCEPT ![d] = "indexed"]
       \/ UNCHANGED vectors /\ adds' = [adds EXCEPT ![d] = "failed"]
    /\ UNCHANGED asks /\ Others

Unasked == [at |-> "idle", seen |-> <<>>, inline |-> <<>>, chunks |-> <<>>]
QueryRag(q) ==
    /\ asks[q].at = "idle"
    /\ \E inline \in {<<>>} \cup {<<d>> : d \in Adds} :
         asks' = [asks EXCEPT ![q] = [@ EXCEPT !.at = "embedding", !.seen = vectors, !.inline = inline]]
    /\ UNCHANGED <<vectors, adds>> /\ Others
\* A question with documents of its own is answered from them alone, after a second embedding.
Retrieve(q) ==
    LET chunks == Search(q, IF asks[q].inline # <<>> THEN asks[q].inline ELSE vectors)
    IN  /\ asks[q].at = "embedding"
        /\ asks' = [asks EXCEPT ![q] = [@ EXCEPT !.chunks = chunks,
                                         !.at = IF chunks = <<>> THEN "no_context" ELSE "completing"]]
        /\ UNCHANGED <<vectors, adds>> /\ Others
Complete(q) ==
    /\ asks[q].at = "completing" /\ asks' = [asks EXCEPT ![q].at = "answered"]
    /\ UNCHANGED <<vectors, adds>> /\ Others
ProviderFails(q) ==
    /\ asks[q].at \in {"embedding", "completing"} /\ asks' = [asks EXCEPT ![q].at = "failed"]
    /\ UNCHANGED <<vectors, adds>> /\ Others

-----------------------------------------------------------------------------
(* Spooling.  An upload is written to a file whose name has the tenant, the *)
(* time and the upload's name; the answer says accepted, and the processor  *)
(* then reads the file, keeps its chunks and always removes it.             *)

spoolVars == <<spool, uploads, kept>>
NoFile == "none"
Empty == "empty"
Mock == "mocked text"       \* what the extractors of PDF, DOCX and HTML return for any file
NotUploaded == [at |-> "idle", name |-> "none", format |-> "none"]

\* open(temp_path, "wb") creates or empties the file, and the await of the body follows.
Spool(u) ==
    /\ uploads[u].at = "idle"
    /\ \E n \in Names, f \in {"text", "extracted"} :
         /\ uploads' = [uploads EXCEPT ![u] = [at |-> "reading", name |-> n, format |-> f]]
         /\ spool' = [spool EXCEPT ![n] = Empty]
    /\ UNCHANGED <<cut, answerVars, kept, rows, batches, applied>>
Accept(u) ==
    /\ uploads[u].at = "reading"
    /\ spool' = [spool EXCEPT ![uploads[u].name] = IF @ = NoFile THEN NoFile ELSE u]
    /\ uploads' = [uploads EXCEPT ![u].at = "accepted"]
    /\ UNCHANGED <<cut, answerVars, kept, rows, batches, applied>>
UploadBreaks(u) ==
    /\ uploads[u].at = "reading" /\ uploads' = [uploads EXCEPT ![u].at = "broken"]
    /\ UNCHANGED <<cut, answerVars, spool, kept, rows, batches, applied>>
\* Mutant of ProcessFile: the file is removed only if nothing went wrong before.
ProcessFile_KeepsFile(u) ==
    /\ uploads[u].at = "accepted"
    /\ kept' = kept \cup {[of |-> u, text |-> Mock]}
    /\ uploads' = [uploads EXCEPT ![u].at = "processed"]
    /\ UNCHANGED <<cut, answerVars, spool, rows, batches, applied>>

\* Nothing in the processor waits, so that it runs as one step of the event loop.
ProcessFile(u) ==
    LET file == spool[uploads[u].name]
        text == IF uploads[u].format = "extracted" THEN Mock ELSE file
        fine == text \notin {NoFile, Empty}
    IN  /\ uploads[u].at = "accepted"
        /\ kept' = IF fine THEN kept \cup {[of |-> u, text |-> text]} ELSE kept
        /\ uploads' = [uploads EXCEPT ![u].at = IF fine THEN "processed" ELSE "aborted"]
        /\ spool' = [spool EXCEPT ![uploads[u].name] = NoFile]
        /\ UNCHANGED <<cut, answerVars, rows, batches, applied>>
ServerStops ==
    /\ \E u \in Uploads : uploads[u].at \in {"reading", "accepted"}
    /\ uploads' = [u \in Uploads |-> IF uploads[u].at \in {"reading", "accepted"}
                                     THEN [uploads[u] EXCEPT !.at = "lost"] ELSE uploads[u]]
    /\ UNCHANGED <<cut, answerVars, spool, kept, rows, batches, applied>>

-----------------------------------------------------------------------------
(* Merging.  A session merges the chunks of its batch one by one: it first  *)
(* writes the chunk before (autoflush), then loads the row of the next one, *)
(* and commits after the last.  It inserts a row it did not find, and of a  *)
(* row it found it updates only the columns that differ from what it loaded.*)

mergeVars == <<rows, batches, applied>>
Columns == {"tenant", "vector"}
NoRow == [tenant |-> "none", vector |-> "none"]
NoBatch == [at |-> "idle", next |-> 1, found |-> NoRow, written |-> << >>, raced |-> FALSE]
Open(b) == batches[b].at = "open"
Holds(b, i) == Open(b) /\ i \in DOMAIN batches[b].written
Seen(b, i) == IF i \in DOMAIN batches[b].written THEN batches[b].written[i] ELSE rows[i]
Chunk(b) == BatchOf[b][batches[b].next - 1]     \* the one loaded and not yet written
Given(c) == [tenant |-> c.tenant, vector |-> c.vector]

\* The columns in which the chunk differs from the row that was loaded.
Differs(b) == {f \in Columns : Given(Chunk(b))[f] # batches[b].found[f]}
HasPending(b) == batches[b].next > 1
Written(b) ==
    IF ~HasPending(b) \/ Differs(b) = {} THEN batches[b].written
    ELSE [i \in {Chunk(b).id} |-> [f \in Columns |-> IF f \in Differs(b) THEN Given(Chunk(b))[f]
                                                     ELSE Seen(b, i)[f]]] @@ batches[b].written
\* A write waits for the session that holds the row; an insert fails when the row came meanwhile.
Waits(b) == HasPending(b) /\ Differs(b) # {} /\ \E c \in Batches \ {b} : Holds(c, Chunk(b).id)
Duplicate(b) == HasPending(b) /\ batches[b].found = NoRow /\ Seen(b, Chunk(b).id) # NoRow
Unchanged == UNCHANGED <<cut, answerVars, spoolVars>>

BeginBatch(b) ==
    /\ batches[b].at = "idle" /\ batches' = [batches EXCEPT ![b].at = "open"]
    /\ UNCHANGED <<rows, applied>> /\ Unchanged
\* Mutant of Merge: each row is committed as soon as it is written.
Merge_Commits(b) ==
    /\ Open(b) /\ ~Waits(b) /\ ~Duplicate(b) /\ batches[b].next <= Len(BatchOf[b])
    /\ batches' = [batches EXCEPT ![b] =
           [batches[b] EXCEPT !.next = @ + 1, !.found = rows[BatchOf[b][batches[b].next].id]]]
    /\ rows' = Written(b) @@ rows
    /\ UNCHANGED applied /\ Unchanged
Merge(b) ==
    /\ Open(b) /\ ~Waits(b) /\ ~Duplicate(b) /\ batches[b].next <= Len(BatchOf[b])
    /\ batches' = [batches EXCEPT ![b] =
           [batches[b] EXCEPT !.written = Written(b), !.next = @ + 1,
                              !.found = rows[BatchOf[b][batches[b].next].id]]]
    /\ UNCHANGED <<rows, applied>> /\ Unchanged
\* A commit makes another session's load of the same row stale.
CommitBatch(b) ==
    LET new == Written(b)
        stale(c) == /\ c # b /\ Open(c)
                    /\ \E k \in 1 .. batches[c].next - 1 : BatchOf[c][k].id \in DOMAIN new
    IN  /\ Open(b) /\ ~Waits(b) /\ ~Duplicate(b) /\ batches[b].next > Len(BatchOf[b])
        /\ rows' = new @@ rows
        /\ applied' = Append(applied, b)
        /\ batches' = [c \in Batches |-> IF c = b THEN [batches[b] EXCEPT !.at = "done"]
                                         ELSE [batches[c] EXCEPT !.raced = @ \/ stale(c)]]
        /\ Unchanged
\* A duplicate key, a deadlock that the database ends, or a lost connection undoes the batch.
RollBack(b) ==
    /\ Open(b)
    /\ batches' = [batches EXCEPT ![b] = [@ EXCEPT !.at = "failed", !.written = << >>]]
    /\ UNCHANGED <<rows, applied>> /\ Unchanged

-----------------------------------------------------------------------------
Init ==
    /\ cut = NoCut
    /\ vectors = <<>> /\ adds = [d \in Adds |-> "idle"] /\ asks = [q \in Asks |-> Unasked]
    /\ spool = [n \in Names |-> NoFile] /\ uploads = [u \in Uploads |-> NotUploaded] /\ kept = {}
    /\ rows = [i \in Ids |-> NoRow] /\ batches = [b \in Batches |-> NoBatch] /\ applied = <<>>

CutNext == CutText \/ CutLines \/ QueryRepository
AnswerNext ==
    \/ \E d \in Adds : StartIndexing(d) \/ IndexDocuments(d)
    \/ \E q \in Asks : QueryRag(q) \/ Retrieve(q) \/ Complete(q) \/ ProviderFails(q)
SpoolNext ==
    \/ \E u \in Uploads : Spool(u) \/ Accept(u) \/ UploadBreaks(u) \/ ProcessFile(u)
    \/ ServerStops
MergeNext == \E b \in Batches : BeginBatch(b) \/ Merge(b) \/ CommitBatch(b) \/ RollBack(b)

-----------------------------------------------------------------------------
TypeOK ==
    /\ Range(vectors) \subseteq Adds /\ Len(vectors) <= Cardinality(Adds)
    /\ \A q \in Asks : asks[q].at \in {"idle", "embedding", "no_context", "completing", "answered", "failed"}
    /\ \A n \in Names : spool[n] \in {NoFile, Empty} \cup Uploads
    /\ \A u \in Uploads : uploads[u].at \in {"idle", "reading", "broken", "accepted", "processed", "aborted", "lost"}
    /\ \A b \in Batches : batches[b].next \in 1 .. Len(BatchOf[b]) + 1

(* What a cutter makes of a text is the text: windows cover every character *)
(* that is kept, none within another and as long as allowed; split texts    *)
(* keep every letter in order, and a chunk that is too long crosses no end  *)
(* of a paragraph; sections hold one header, like sentences stay together;  *)
(* and the lines a chunk cites are its lines (rag_ingestion.py:98,          *)
(* chunking.py:29-198, document_processor.py:79, service.py:181).           *)
Out == cut.out
Covers(p) == p \in UNION {Out[k].start + 1 .. Out[k].end : k \in DOMAIN Out}
Follow(k) == Out[k].start < Out[k + 1].start
Letters(s) == SelectSeq(s, LAMBDA c : c = Letter)
Flat(s) == FoldLeft(LAMBDA out, x : out \o x, <<>>, s)
Paragraphs(s) == \E i \in 1 .. Len(s) - 1 : s[i] = "n" /\ s[i + 1] = "n"
Later == 1 .. Len(Out) - 1
WindowsTell ==
    /\ \A k \in DOMAIN Out : Out[k].end - Out[k].start <= cut.p[1]
    /\ \A k \in Later : Follow(k)
    /\ \A i \in (IF cut.by = "page" THEN Ink(cut.text) ELSE DOMAIN cut.text) : Covers(i)
    /\ cut.by # "strided" => \A k \in Later : Out[k].end < Out[k + 1].end
    /\ cut.by = "page" => \A k \in DOMAIN Out : Ink(Part(cut.text, Out[k])) # {}
LinesTell ==
    /\ \A k \in DOMAIN Out : /\ Out[k].lines = [i \in 1 .. Out[k].end - Out[k].start + 1 |-> Out[k].start + i - 1]
                             /\ LineTotal(cut.text, Front(Out[k].lines)) <= cut.p[1]
    /\ \A k \in Later : /\ Out[k].end < Out[k + 1].end /\ Out[k + 1].start <= Out[k].end + 1
                        /\ \/ Out[k + 1].start = Out[k].end + 1
                           \/ LineTotal(cut.text, [i \in 1 .. Out[k].end - Out[k + 1].start + 1
                                                     |-> Out[k + 1].start + i - 1]) <= cut.p[2]
    /\ cut.text # <<>> => Out[1].start = 1 /\ Last(Out).end = Len(cut.text)
CutsTell ==
    CASE cut.by \in {"page", "fixed", "strided"} -> WindowsTell
      [] cut.by = "lines" -> LinesTell
      [] cut.by = "recursive" -> /\ Letters(Flat(Out)) = Letters(cut.text)
                                 /\ \A k \in DOMAIN Out : Len(Out[k]) > cut.p[1] => ~Paragraphs(Out[k])
      [] cut.by = "semantic" -> /\ Flat(Out) = cut.text
                                /\ \A k \in DOMAIN Out : Cardinality(Range(Out[k])) = 1
      [] cut.by = "markdown" -> /\ Flat(Out) = SelectSeq(cut.text, LAMBDA c : c \notin Blank)
                                /\ \A k \in DOMAIN Out : "." \notin Range(Tail(Out[k]))
      [] OTHER -> TRUE

(* A question about the repository cites, best first, files that its roots   *)
(* hold and that have something to say; one that has is passed over only for *)
(* better ones, or when it or its root is hidden (service.py:142-236).       *)
CitationsTell == cut.by = "cited" =>
    /\ \A k \in DOMAIN Out : /\ Out[k].supported /\ ~Out[k].blank /\ Out[k].score > 0
                             /\ \E r \in Range(cut.roots) : Out[k] \in Range(FilesOf(r))
    /\ \A k \in 1 .. Len(Out) - 1 : Out[k].score >= Out[k + 1].score
    /\ cut.answer = "answered" =>
         \A r \in Range(cut.roots) : \A f \in Range(FilesOf(r)) \ Range(Out) :
             \/ ~f.supported \/ f.blank \/ f.score = 0 \/ (r.directory /\ (r.hidden \/ f.hidden))
             \/ Len(Out) = TopK /\ \A k \in DOMAIN Out : Out[k].score >= f.score

(* A question is answered from the best chunks there are: whatever was      *)
(* indexed before it came and scores enough is among its chunks unless TopK *)
(* better ones are, so that it is never told there is no context; and a     *)
(* context exceeds its size by two characters at most                       *)
(* (retrieval_chain.py:125-131, 185-201, 215-281).                          *)
Total(blocks) == FoldLeft(LAMBDA n, b : n + b + 2, 0, blocks)
Searched(q) == asks[q].at \in {"no_context", "completing", "answered"}
AnswersTell == \A q \in Asks : Searched(q) =>
    LET got == asks[q].chunks
        from == IF asks[q].inline # <<>> THEN asks[q].inline ELSE asks[q].seen
    IN  /\ \A d \in Range(from) \ Range(got) :
             \/ Relevance(q, d) < MinScore
             \/ Len(got) = TopK /\ \A e \in Range(got) : Relevance(q, e) >= Relevance(q, d)
        /\ \A k \in 1 .. Len(got) - 1 : Relevance(q, got[k]) >= Relevance(q, got[k + 1])
        /\ asks[q].inline # <<>> => Range(got) \subseteq Range(asks[q].inline)
        /\ got # <<>> => Total(ContextWindow(got)) - 2 <= MaxContext + 2

(* No spooled file outlives its upload unless the upload broke or the       *)
(* server stopped, and what is kept of an upload, if it is read from the    *)
(* file, is its own text unless another one got the same name               *)
(* (document_processor.py:114-161, 169-217).                                *)
Shared(u) == \E v \in Uploads \ {u} : uploads[v].name = uploads[u].name
SpoolTells ==
    /\ \A n \in Names : spool[n] # NoFile =>
         \E u \in Uploads : uploads[u].name = n /\ uploads[u].at \in {"reading", "accepted", "broken", "lost"}
    /\ \A u \in Uploads : ~Shared(u) =>
         /\ uploads[u].at # "aborted"
         /\ uploads[u].at = "accepted" => spool[uploads[u].name] = u
    /\ \A r \in kept : Shared(r.of) \/ r.text \in {r.of, Mock}

(* The rows are those of the committed batches in the order of their        *)
(* commits, each batch as a whole, unless a batch had loaded a row before   *)
(* another one's commit changed it: then a row may be of two batches, each  *)
(* column still of one that was committed (backend/app/vector_store.py:64). *)
Apply(r, b) == FoldLeft(LAMBDA s, c : [s EXCEPT ![c.id] = Given(c)], r, BatchOf[b])
MergesTell ==
    /\ (\A b \in Range(applied) : ~batches[b].raced)
          => rows = FoldLeft(Apply, [i \in Ids |-> NoRow], applied)
    /\ \A i \in Ids, f \in Columns : rows[i] = NoRow \/
         \E b \in Range(applied) : \E c \in Range(BatchOf[b]) : c.id = i /\ rows[i][f] = c[f]
=============================================================================
