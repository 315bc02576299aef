------------------------------ MODULE Reading ------------------------------
(***************************************************************************)
(* Reading a revision piece by piece: open, read and grep of               *)
(* app/services/document_reader.py with their signed cursors, the schemas  *)
(* in front of them (agent/tools.py) and the handles under which a model   *)
(* continues (ToolView, agent/course_tools.py). A revision that students   *)
(* may read is frozen; a teacher also reads the waiting draft, which edits *)
(* change in place. An item is a block with a range, or a page. One reader *)
(* reads; the cursor of another one is refused like a strange one.         *)
(***************************************************************************)
EXTENDS Integers, FiniteSets, Functions, SequencesExt

CONSTANTS
    PageOf,         \* the page of each block, in reading order
    DocumentOf,     \* the document of each page, in order
    Letters, Patterns,
    MaxLength,      \* of a block
    MaxBudget, OpenBatch, GrepBatch, GrepAllMatches,
    MaxEdits,       \* blocks of a waiting draft that change; 0: a frozen revision
    None

Blocks == DOMAIN PageOf
Pages == DOMAIN DocumentOf
Documents == Range(DocumentOf)

\* A place in a reading, a cursor that stands for it, and a request.
Positions == [block : Nat \cup {None}, offset : Nat, end : Nat \cup {None}]
Cursors == [doc : Nat, op : {"open", "read", "grep"},
            args : {<<>>} \cup (Pages \cup {None}) \X (Blocks \cup {None}) \X (Patterns \cup {None}),
            position : Positions]
Requests == [tool : {"open", "read", "grep"}, doc : Nat, page : Pages \cup {None},
             block : Blocks \cup {None}, start : Nat \cup {None}, end : Nat \cup {None},
             pattern : Patterns \cup {None}, cursor : Cursors \cup {None}]

\* Assumed of the constants wherever the module is instantiated.
ReadingConstants ==
    /\ PageOf \in Seq(Pages) /\ DocumentOf \in Seq(Nat)
    /\ \A b, c \in Blocks : b < c => PageOf[b] <= PageOf[c]
    /\ \A p, q \in Pages : p < q => DocumentOf[p] <= DocumentOf[q]
    /\ Patterns \subseteq Seq(Letters) \ {<<>>}
    /\ {MaxBudget, OpenBatch, GrepBatch, GrepAllMatches} \subseteq Nat \ {0}
    /\ GrepAllMatches <= GrepBatch
    /\ {MaxLength, MaxEdits} \subseteq Nat
    /\ None \notin Nat \cup {"open", "read", "grep", "grep all"}
    /\ None \notin Positions \cup Cursors \cup Requests

VARIABLES
    content,        \* the text of each block
    edited,         \* the blocks that changed since the reading began
    asked,          \* the request the reading began with
    taken,          \* the items of all its answers
    handle,         \* the request that continues it: next_cursor
    answer          \* the last answer
vars == <<content, edited, asked, taken, handle, answer>>

Texts == UNION {[1..n -> Letters] : n \in 0..MaxLength}
Least(S) == CHOOSE x \in S : \A y \in S : x <= y
Min2(a, b) == IF a <= b THEN a ELSE b

\* The elements of a set in an order: the k-th has k - 1 before it.
Sorted(S, before(_, _)) ==
    [k \in 1..Cardinality(S) |-> CHOOSE x \in S : Cardinality({y \in S : before(y, x)}) = k - 1]
InOrder(S) == Sorted(S, <)

PagesOf(d) == InOrder({p \in Pages : DocumentOf[p] = d})
BlocksOf(p) == InOrder({b \in Blocks : PageOf[b] = p})
TextsOf(d) == InOrder({b \in Blocks : DocumentOf[PageOf[b]] = d})

-----------------------------------------------------------------------------
(* Requests and cursors                                                    *)

NoRequest == [tool |-> None, doc |-> None, page |-> None, block |-> None,
              start |-> None, end |-> None, pattern |-> None, cursor |-> None]
Opening(d, p) == [NoRequest EXCEPT !.tool = "open", !.doc = d, !.page = p]
ReadingPage(p) == [NoRequest EXCEPT !.tool = "read", !.doc = DocumentOf[p], !.page = p]
ReadingBlock(b, s, e) == [NoRequest EXCEPT !.tool = "read", !.doc = DocumentOf[PageOf[b]],
                                           !.block = b, !.start = s, !.end = e]
Searching(d, p) == [NoRequest EXCEPT !.tool = "grep", !.doc = d, !.pattern = p]
Ends == {None} \cup 0..MaxLength
FirstRequests ==
    {Opening(d, None) : d \in Documents} \cup
    {Opening(DocumentOf[p], p) : p \in Pages} \cup
    {ReadingPage(p) : p \in Pages} \cup
    {ReadingBlock(x[1], x[2], x[3]) : x \in Blocks \X Ends \X Ends} \cup
    {Searching(x[1], x[2]) : x \in Documents \X Patterns}

\* args: what the operation signs into its cursors.
Bound(r) == IF r.tool = "open" THEN <<>> ELSE <<r.page, r.block, r.pattern>>
Position(block, offset, end) == [block |-> block, offset |-> offset, end |-> end]
CursorOf(r, position) == [doc |-> r.doc, op |-> r.tool, args |-> Bound(r), position |-> position]

\* Mutant: the cursor is bound to the kind of the request, not to its arguments.
DecodesAny(r) ==
    \/ r.cursor = None
    \/ /\ r.cursor.doc = r.doc /\ r.cursor.op = r.tool
       /\ \A k \in DOMAIN Bound(r) : (r.cursor.args[k] = None) = (Bound(r)[k] = None)
Decodes(r) ==
    \/ r.cursor = None
    \/ r.cursor.doc = r.doc /\ r.cursor.op = r.tool /\ r.cursor.args = Bound(r)

\* OpenArgs, ReadArgs and GrepArgs.
Valid(r) ==
    /\ r.tool = "open" => r.cursor = None \/ r.page = None
    /\ r.tool = "read" =>
           /\ (r.page = None) # (r.block = None)
           /\ r.cursor # None \/ r.page # None => r.start = None /\ r.end = None
           /\ r.start # None /\ r.end # None => r.start <= r.end

\* Mutant: the handle keeps the range of a block read.
HandleWithRange(r, next) ==
    IF next = None THEN None
    ELSE [r EXCEPT !.page = IF r.tool = "open" THEN None ELSE @, !.cursor = CursorOf(r, next)]
\* The request behind a new handle: _cursor of ToolView.
Handle(r, next) ==
    IF next = None THEN None
    ELSE [r EXCEPT !.page = IF r.tool = "open" THEN None ELSE @,
                   !.start = None, !.end = None, !.cursor = CursorOf(r, next)]

-----------------------------------------------------------------------------
(* The answers                                                             *)

Piece(b, from, to) == [block |-> b, from |-> from, to |-> to]
Answer(items, next, used) == [ok |-> TRUE, items |-> items, next |-> next, used |-> used,
                              budget |-> MaxBudget, more |-> {}]
Refusal == [ok |-> FALSE, items |-> <<>>, next |-> None, used |-> 0, budget |-> MaxBudget, more |-> {}]

Stop(end, start, room) == Min2(end, start + room)

Open(r) ==
    LET pages == PagesOf(r.doc)
        first == IF r.cursor # None THEN r.cursor.position.offset
                 ELSE IF r.page = None THEN 1 ELSE CHOOSE i \in DOMAIN pages : pages[i] = r.page
        last == Min2(Len(pages), first + OpenBatch - 1)
    IN Answer(SubSeq(pages, first, last),
              IF last < Len(pages) THEN Position(None, last + 1, None) ELSE None, 0)

\* Mutant: the answer is cut at the budget, and the cursor starts over.
ReadBlockAgain(r, budget) ==
    LET start == IF r.cursor # None THEN r.cursor.position.offset ELSE IF r.start = None THEN 0 ELSE r.start
        end == IF r.cursor # None THEN r.cursor.position.end
               ELSE IF r.end = None THEN Len(content[r.block]) ELSE r.end
        stop == Stop(end, start, budget)
    IN IF ~(0 <= start /\ start <= end /\ end <= Len(content[r.block])) THEN Refusal
       ELSE Answer(<<Piece(r.block, start, stop)>>,
                   IF stop < end THEN Position(None, start, end) ELSE None, stop - start)
ReadBlock(r, budget) ==
    LET start == IF r.cursor # None THEN r.cursor.position.offset ELSE IF r.start = None THEN 0 ELSE r.start
        end == IF r.cursor # None THEN r.cursor.position.end
               ELSE IF r.end = None THEN Len(content[r.block]) ELSE r.end
        stop == Stop(end, start, budget)
    IN IF ~(0 <= start /\ start <= end /\ end <= Len(content[r.block])) THEN Refusal
       ELSE Answer(<<Piece(r.block, start, stop)>>,
                   IF stop < end THEN Position(None, stop, end) ELSE None, stop - start)

\* Mutant: each block may use the whole budget.
RoomOfEach(budget, used) == IF used >= budget THEN 0 ELSE budget
Room(budget, used) == budget - used

\* The blocks of a page from the cursor on, until the budget is used up.
ReadPage(r, budget) ==
    LET blocks == BlocksOf(r.page)
        first == IF r.cursor = None THEN 1 ELSE r.cursor.position.block
        Begin(n) == IF r.cursor # None /\ n = first THEN r.cursor.position.offset ELSE 0
        Reads(a, n) ==
            LET length == Len(content[blocks[n]])
                stop == Stop(length, Begin(n), Room(budget, a.used))
            IN CASE a.next # None -> a
                 [] a.next = None /\ Room(budget, a.used) <= 0 -> [a EXCEPT !.next = Position(n, Begin(n), None)]
                 [] OTHER -> Answer(Append(a.items, Piece(blocks[n], Begin(n), stop)),
                                    IF stop < length THEN Position(n, stop, None) ELSE None,
                                    a.used + stop - Begin(n))
    IN FoldLeft(Reads, Answer(<<>>, None, 0), [k \in 1..(Len(blocks) - first + 1) |-> first + k - 1])

Occurs(pattern, text, at) == SubSeq(text, at + 1, at + Len(pattern)) = pattern
\* finditer from an offset on: an occurrence counts unless it overlaps one before
\* it that counts.
Matches(b, pattern, offset) ==
    LET hits == {i \in offset..(Len(content[b]) - Len(pattern)) : Occurs(pattern, content[b], i)}
        starts == CHOOSE S \in SUBSET hits :
                      \A i \in hits : i \in S <=> \A j \in S : j < i => j + Len(pattern) <= i
    IN {Piece(b, i, i + Len(pattern)) : i \in starts}
Earlier(x, y) == x.block < y.block \/ (x.block = y.block /\ x.from < y.from)
ByPlace(S) == Sorted(S, Earlier)

\* The match that found no place any more: there the next answer begins.
Resume(found, n) == found[n + 1].from

Grep(r) ==
    LET blocks == TextsOf(r.doc)
        first == IF r.cursor = None THEN 1 ELSE r.cursor.position.block
        offset == IF r.cursor = None THEN 0 ELSE r.cursor.position.offset
        found == ByPlace(UNION {Matches(blocks[n], r.pattern, IF n = first THEN offset ELSE 0) :
                                    n \in first..Len(blocks)})
    IN Answer(SubSeq(found, 1, Min2(GrepBatch, Len(found))),
              IF Len(found) <= GrepBatch THEN None
              ELSE Position(CHOOSE n \in DOMAIN blocks : blocks[n] = found[GrepBatch + 1].block,
                            Resume(found, GrepBatch), None), 0)

\* Mutant: a document has more when its own answer was cut.
MoreIn(found, room, next) == next # None
HasMore(found, room, next) == Len(found) > room \/ next # None
\* _grep_all: the documents one after another, those that cannot be read left
\* out, until the list is full.
GrepAll(pattern, readable) ==
    LET Adds(a, d) ==
            LET found == Grep(Searching(d, pattern))
                room == GrepAllMatches - Len(a.items)
            IN [a EXCEPT !.items = @ \o SubSeq(found.items, 1, Min2(room, Len(found.items))),
                         !.more = IF HasMore(found.items, room, found.next) THEN @ \cup {d} ELSE @]
    IN FoldLeft(Adds, Answer(<<>>, None, 0), InOrder(readable))

\* What the backend answers to a request.
Answered(r, budget) ==
    IF ~Valid(r) \/ ~Decodes(r) THEN Refusal
    ELSE [CASE r.tool = "open" -> Open(r)
            [] r.tool = "grep" -> Grep(r)
            [] r.block # None -> ReadBlock(r, budget)
            [] OTHER -> ReadPage(r, budget) EXCEPT !.budget = IF r.tool = "read" THEN budget ELSE @]

-----------------------------------------------------------------------------
Init ==
    /\ content \in [Blocks -> Texts]
    /\ edited = {}
    /\ asked = NoRequest /\ taken = <<>> /\ handle = None /\ answer = Refusal

\* A first request begins a reading anew.
Ask(r, budget) ==
    LET a == Answered(r, budget)
    IN /\ asked = NoRequest
       /\ a.ok
       /\ asked' = r /\ taken' = a.items /\ handle' = Handle(r, a.next) /\ answer' = a
       /\ UNCHANGED <<content, edited>>

\* The reader goes on under the handle of the last answer.
Continue(budget) ==
    LET a == Answered(handle, budget)
    IN /\ handle # None
       /\ answer' = a
       /\ taken' = taken \o a.items
       /\ handle' = IF a.ok THEN Handle(handle, a.next) ELSE handle
       /\ UNCHANGED <<content, edited, asked>>

\* A cursor in a request it was not made for; it would begin a reading of its own.
Stray(r, budget) ==
    LET s == [r EXCEPT !.cursor = handle.cursor, !.start = None, !.end = None]
        a == Answered(s, budget)
    IN /\ handle # None
       /\ <<s.doc, s.tool, Bound(s)>> # <<handle.doc, handle.tool, Bound(handle)>>
       /\ answer' = a
       /\ IF a.ok THEN asked' = r /\ taken' = a.items /\ handle' = Handle(s, a.next)
          ELSE UNCHANGED <<asked, taken, handle>>
       /\ UNCHANGED <<content, edited>>

AskAll(pattern, readable) ==
    /\ asked = NoRequest
    /\ asked' = [NoRequest EXCEPT !.tool = "grep all", !.pattern = pattern, !.doc = readable]
    /\ answer' = GrepAll(pattern, readable)
    /\ taken' = answer'.items
    /\ UNCHANGED <<content, edited, handle>>

\* edit_block in the waiting draft.
EditInPlace(b, text) ==
    /\ handle # None
    /\ b \notin edited /\ Cardinality(edited) < MaxEdits
    /\ text # content[b]
    /\ content' = [content EXCEPT ![b] = text]
    /\ edited' = edited \cup {b}
    /\ UNCHANGED <<asked, taken, handle, answer>>

Next ==
    \/ \E budget \in 1..MaxBudget :
           \/ \E r \in FirstRequests : Ask(r, budget) \/ Stray(r, budget)
           \/ Continue(budget)
    \/ \E pattern \in Patterns, readable \in SUBSET Documents : AskAll(pattern, readable)
    \/ \E b \in Blocks, text \in Texts : EditInPlace(b, text)

Spec == Init /\ [][Next]_vars

-----------------------------------------------------------------------------
(* Properties                                                              *)

\* What a whole reading returns, from the text alone: the pages of a document, the
\* text of a page or a range, the matches of a document.
WantedPages(r) == InOrder({p \in Pages : DocumentOf[p] = r.doc /\ (r.page = None \/ p >= r.page)})
WantedBlocks(r) == IF r.page = None THEN {r.block} ELSE {b \in Blocks : PageOf[b] = r.page}
From(r) == IF r.start = None THEN 0 ELSE r.start
To(r, b) == IF r.end = None THEN Len(content[b]) ELSE r.end
WantedMatches(d, pattern) == UNION {Matches(b, pattern, 0) : b \in Range(TextsOf(d))}

\* The blocks in order, and the pieces of each that was not edited end to end.
Joined(r, items) ==
    /\ WantedBlocks(r) \ edited \subseteq {i.block : i \in Range(items)}
    /\ \A n \in DOMAIN items :
           LET b == items[n].block
               follows == n > 1 /\ items[n - 1].block = b
               goesOn == n < Len(items) /\ items[n + 1].block = b
           IN /\ b \in WantedBlocks(r)
              /\ n > 1 => items[n - 1].block <= b
              /\ b \notin edited =>
                     /\ items[n].from = IF follows THEN items[n - 1].to ELSE From(r)
                     /\ items[n].from <= items[n].to
                     /\ ~goesOn => items[n].to = To(r, b)

InReadingOrder(items) == \A i, j \in DOMAIN items : i < j => Earlier(items[i], items[j])

\* The types of the variables.
TypeOK ==
    /\ content \in [Blocks -> Texts]
    /\ edited \subseteq Blocks /\ Cardinality(edited) <= MaxEdits
    /\ asked.tool \in {"open", "read", "grep", "grep all", None}
    /\ IF asked.tool = "open" THEN taken \in Seq(Pages)
       ELSE taken \in Seq([block : Blocks, from : 0..MaxLength, to : 0..MaxLength])
    /\ handle = None \/ (handle \in Requests /\ handle.cursor \in Cursors)
    /\ answer.ok \in BOOLEAN /\ answer.more \subseteq Documents

\* An answer without a cursor ends a complete reading: the page list, the text
\* of a page or a range, the matches of a document have been returned once, in
\* order and without a gap, whatever the budgets of the answers were and
\* whichever cursors came into strange requests between them. Edits of some
\* blocks meanwhile take nothing from the others.
Kept(items) == {i \in items : i.block \notin edited}
NoCursorMeansComplete ==
    asked # NoRequest /\ handle = None /\ answer.ok =>
        /\ asked.tool = "open" => taken = WantedPages(asked)
        /\ asked.tool = "read" => Joined(asked, taken)
        /\ asked.tool = "grep" => /\ Kept(Range(taken)) = Kept(WantedMatches(asked.doc, asked.pattern))
                                  /\ InReadingOrder(taken)

\* A read returns no more text than its budget (documentation/API.md:208), unless
\* a block of the draft was edited to less than the offset of a cursor: begin is
\* then behind stop, and read counts a negative length.
WithinBudget ==
    answer.ok /\ asked.tool = "read" /\ edited = {} =>
        SumFunctionOnSet([i \in DOMAIN answer.items |-> answer.items[i].to - answer.items[i].from],
                         DOMAIN answer.items) <= answer.budget

\* A handle that was given works: the schema in front of the reader takes the
\* arguments it stands for, and the reader takes its cursor.
HandlesContinue ==
    edited = {} /\ handle # None => \A budget \in 1..MaxBudget : Answered(handle, budget).ok

\* Following the handles comes to an end: each answer goes on from a later place.
Advances ==
    /\ handle # None /\ handle' # None
    /\ asked' = asked /\ answer'.ok
    /\ content' = content
    => LET was == handle.cursor.position
           now == handle'.cursor.position
       IN \/ now.offset > was.offset /\ now.block = was.block
          \/ now.block # was.block /\ now.block > was.block

\* A search of all documents shows the first matches in the order of the
\* documents, and names each document that has others.
SearchTellsWhatItOmits ==
    asked.tool = "grep all" =>
        LET all == UNION {WantedMatches(d, asked.pattern) : d \in asked.doc}
        IN /\ Range(taken) \subseteq all /\ InReadingOrder(taken)
           /\ Len(taken) = Min2(GrepAllMatches, Cardinality(all))
           /\ \A m \in all \ Range(taken) : \A i \in Range(taken) : Earlier(i, m)
           /\ answer.more = {d \in asked.doc : ~(WantedMatches(d, asked.pattern) \subseteq Range(taken))}

=============================================================================
