-------------------------------- MODULE Send --------------------------------
(***************************************************************************)
(* handleSend, render and deliver (bridge.go) with the notebook reader     *)
(* (xochitl.go) and the upload calls of the Notion client (client.go): the *)
(* pages a user selected become files, and the files blocks on a page of   *)
(* Notion, one call after the other.                                       *)
(*                                                                         *)
(* Notion is external: a call is refused, or carried out; and what was     *)
(* carried out may still be answered by an error, when the answer is lost. *)
(* The user may press Send again after any answer.  A rendered file is     *)
(* named by the notebook pages in it.                                      *)
(***************************************************************************)
EXTENDS PageRange, FiniteSets

CONSTANTS
    Pages,      \* ids of notebook pages
    Notebooks,  \* contents of a notebook: pages in order, with deleted ones
    Ranges,     \* expressions the user types
    Requests,   \* what else a request says
    MaxSends    \* bound on how often Send is pressed

ASSUME SendAssumption ==
    /\ MaxSends \in Nat
    /\ Notebooks \subseteq [cPages : Seq([id : Pages, deleted : BOOLEAN]), pages : Seq(Pages)]
    /\ Ranges \subseteq Seq(Part \cup {Malformed})
    /\ Requests \subseteq [format : {"svg", "pdf", "png"}, attach_as : {"", "embed", "file", "link"},
                            target : BOOLEAN, badID : BOOLEAN]

VARIABLES
    notebook,   \* the notebook on the tablet
    authed,     \* there is an account with a token
    pc,         \* where the handler is
    req,        \* the request: format and attach_as
    pageIDs,    \* Document.PageIDs
    scenes,     \* how many of the selected pages were read and parsed
    uploads,    \* the files to send
    current,    \* which of them deliver is at
    uploadID,   \* the id of its upload
    blockURL,   \* the block the answer will point to; 0 for none yet, or PageURL
    answer,     \* "none", "ok", "error" or "revoked"
    created,    \* Notion: how many uploads were created
    content,    \* Notion: what the uploads hold that were sent
    page,       \* Notion: the blocks of the target page
    before,     \* history: how many blocks the page had when Send was pressed
    sends       \* bound: how often it was pressed

\* A link to the target page, and to no block on it.
PageURL == -1

notion == <<created, content, page>>
sendVars == <<rangeVars, notebook, authed, pc, req, pageIDs, scenes, uploads, current, uploadID,
              blockURL, answer, notion, before, sends>>

SendInit ==
    /\ RangeInit
    /\ notebook \in Notebooks /\ authed \in BOOLEAN
    /\ pc = "idle" /\ req \in Requests
    /\ pageIDs = <<>> /\ scenes = 0 /\ uploads = <<>> /\ current = 1 /\ uploadID = 0
    /\ blockURL = 0 /\ answer = "none"
    /\ created = 0 /\ content = <<>> /\ page = <<>> /\ before = 0 /\ sends = 0

Answer(a) == pc' = "idle" /\ answer' = a

-----------------------------------------------------------------------------
(* The request, and what it is rendered to.                                *)

Accepts(r) == r.target /\ r.format \in {"svg", "pdf"} /\ r.attach_as \in {"", "embed", "file"}

\* The user presses Send; the request is checked, then the account.
Press(r) ==
    /\ pc = "idle" /\ sends < MaxSends
    /\ sends' = sends + 1 /\ before' = Len(page) /\ req' = r
    /\ uploads' = <<>> /\ current' = 1 /\ uploadID' = 0 /\ blockURL' = 0 /\ scenes' = 0
    /\ IF Accepts(r) /\ authed THEN pc' = "document" /\ answer' = "none" ELSE Answer("error")
    /\ UNCHANGED <<rangeVars, notebook, authed, pageIDs, notion>>

\* Mutated form: deleted pages are pages.
PagesWithDeleted(n) == IF n.cPages # <<>> THEN [i \in DOMAIN n.cPages |-> n.cPages[i].id] ELSE n.pages

\* What Document's loop has kept after the first k pages.
KeptUpTo(list) ==
    LET kept[k \in 0..Len(list)] ==
            IF k = 0 THEN <<>>
            ELSE IF list[k].deleted THEN kept[k - 1] ELSE Append(kept[k - 1], list[k].id)
    IN  kept

\* Newer notebooks list their pages in cPages, deleted ones included.
DocumentPages(n) == IF n.cPages # <<>> THEN KeptUpTo(n.cPages)[Len(n.cPages)] ELSE n.pages

\* Document: its two files are read and parsed, and it has pages.
ReadDocument(expr) ==
    /\ pc = "document"
    /\ pageIDs' = DocumentPages(notebook)
    /\ \/ pageIDs' # <<>> /\ pc' = "range" /\ StartRange(expr, Len(pageIDs')) /\ UNCHANGED answer
       \/ Answer("error") /\ UNCHANGED rangeVars
    /\ UNCHANGED <<notebook, authed, req, scenes, uploads, current, uploadID, blockURL, notion,
                   before, sends>>

ParseRange ==
    /\ pc = "range"
    /\ \/ RangeStep /\ UNCHANGED <<pc, answer>>
       \/ rangePc = "resolved" /\ pc' = "render" /\ UNCHANGED <<answer, rangeVars>>
       \/ rangePc = "refused" /\ Answer("error") /\ UNCHANGED rangeVars
    /\ UNCHANGED <<notebook, authed, req, pageIDs, scenes, uploads, current, uploadID, blockURL,
                   notion, before, sends>>

\* A page is found and parsed, or the send is over.
RenderPage ==
    /\ pc = "render" /\ scenes < Len(indices)
    /\ \/ scenes' = scenes + 1 /\ UNCHANGED <<pc, answer>>
       \/ Answer("error") /\ UNCHANGED scenes
    /\ UNCHANGED <<rangeVars, notebook, authed, req, pageIDs, uploads, current, uploadID, blockURL,
                   notion, before, sends>>

\* Mutated form: the files are numbered as they come.
NumberedName(k) == IF Len(indices) > 1 THEN k ELSE 0

\* "notebook.svg", or "notebook p3.svg" when there are several.
SvgName(k) == IF Len(indices) > 1 THEN indices[k] + 1 ELSE 0

\* One PDF of all pages, or one SVG per page.
Files ==
    IF req.format = "pdf"
    THEN <<[name |-> 0, type |-> "pdf", pages |-> [k \in DOMAIN indices |-> pageIDs[indices[k] + 1]]]>>
    ELSE [k \in DOMAIN indices |->
              [name |-> SvgName(k), type |-> "image", pages |-> <<pageIDs[indices[k] + 1]>>]]

RenderFiles ==
    /\ pc = "render" /\ scenes = Len(indices)
    /\ uploads' = Files
    /\ pc' = "create"
    /\ UNCHANGED <<rangeVars, notebook, authed, req, pageIDs, scenes, current, uploadID, blockURL,
                   answer, notion, before, sends>>

-----------------------------------------------------------------------------
(* deliver: for each file create an upload, send it, attach it.            *)

\* The call ends in an error, or in a 401, which drops the account.
Fails == Answer("error") /\ UNCHANGED <<authed, uploadID, current, blockURL>>
Refused == Fails \/ (Answer("revoked") /\ authed' = FALSE /\ UNCHANGED <<uploadID, current, blockURL>>)

\* An id that cannot go into a path is an error as well.
CreateUpload ==
    /\ pc = "create" /\ current <= Len(uploads)
    /\ \/ /\ created' = created + 1 /\ uploadID' = created + 1
          /\ pc' = "send" /\ UNCHANGED <<answer, authed, current, blockURL>>
       \/ created' = created + 1 /\ Fails
       \/ created' = created /\ Refused
    /\ UNCHANGED <<rangeVars, notebook, req, pageIDs, scenes, uploads, content, page, before, sends>>

\* Any status but "uploaded" is an error, though Notion may have the bytes.
SendUpload ==
    /\ pc = "send"
    /\ \/ /\ content' = Append(content, [upload |-> uploadID, pages |-> uploads[current].pages])
          /\ \/ pc' = "attach" /\ UNCHANGED <<answer, authed, uploadID, current, blockURL>>
             \/ Fails
       \/ content' = content /\ Refused
    /\ UNCHANGED <<rangeVars, notebook, req, pageIDs, scenes, uploads, created, page, before, sends>>

\* Mutated form: what is attached as a file keeps its own block.
BlockTypeOfFile(type, as) == type

BlockTypeFor(type, as) == IF as = "file" THEN "file" ELSE type

\* checkID refuses a page id that is none, before Notion is asked.  An answer that
\* names no block gives the URL of the page; deliver keeps the first URL.
AttachFile ==
    /\ pc = "attach"
    /\ \/ /\ ~req.badID
          /\ page' = Append(page, [upload |-> uploadID, name |-> uploads[current].name,
                                   type |-> BlockTypeFor(uploads[current].type, req.attach_as)])
          /\ \/ /\ current' = current + 1 /\ pc' = "create"
                /\ blockURL' \in IF blockURL = 0 THEN {Len(page'), PageURL} ELSE {blockURL}
                /\ UNCHANGED <<answer, authed, uploadID>>
             \/ Fails
       \/ page' = page /\ IF req.badID THEN Fails ELSE Refused
    /\ UNCHANGED <<rangeVars, notebook, req, pageIDs, scenes, uploads, created, content, before, sends>>

Delivered ==
    /\ pc = "create" /\ current > Len(uploads)
    /\ Answer("ok")
    /\ UNCHANGED <<rangeVars, notebook, authed, req, pageIDs, scenes, uploads, current, uploadID,
                   blockURL, notion, before, sends>>

Idle == pc = "idle" /\ sends = MaxSends /\ UNCHANGED sendVars

SendNext ==
    \/ \E r \in Requests : Press(r)
    \/ \E expr \in Ranges : ReadDocument(expr)
    \/ ParseRange \/ RenderPage \/ RenderFiles
    \/ CreateUpload \/ SendUpload \/ AttachFile \/ Delivered \/ Idle

SendSpec == SendInit /\ [][SendNext]_sendVars

-----------------------------------------------------------------------------
(* Properties.                                                             *)

\* The block shows the file: its name, its type, and an upload that holds the
\* file's pages and that no other block shows.
Shows(i, file) ==
    /\ page[i].name = file.name
    /\ page[i].type = IF req.attach_as = "file" THEN "file" ELSE file.type
    /\ \E c \in DOMAIN content : content[c].upload = page[i].upload /\ content[c].pages = file.pages
    /\ \A j \in DOMAIN page : page[j].upload = page[i].upload => j = i

\* However a send ends, what it has put on the page are its first files, each
\* once, whole and in order: an attempt never goes on behind one that failed
\* and leaves no gap (bridge.go:433-448).
SendsInOrder ==
    uploads # <<>> =>
        /\ Len(page) - before \in (current - 1)..current
        /\ \A i \in (before + 1)..Len(page) : Shows(i, uploads[i - before])

\* Page p is the k-th of the notebook as its reader sees it: that is not deleted.
IsKthPage(p, k) ==
    IF notebook.cPages = <<>> THEN k \in DOMAIN notebook.pages /\ notebook.pages[k] = p
    ELSE LET kept == {i \in DOMAIN notebook.cPages : ~notebook.cPages[i].deleted}
         IN  \E i \in kept : notebook.cPages[i].id = p /\ Cardinality({j \in kept : j <= i}) = k

\* The pages the new blocks show, one after the other.
NewBlocks == (before + 1)..Len(page)
ShownBy(i) == content[CHOOSE c \in DOMAIN content : content[c].upload = page[i].upload].pages
PagesUpTo[n \in 0..Len(page)] == IF n <= before THEN <<>> ELSE PagesUpTo[n - 1] \o ShownBy(n)

\* A send that reports success has put every selected page there, in the order
\* selected, and its link leads to the first new block, or to the page when Notion
\* named no block (bridge.go:371).
SuccessIsWhole ==
    answer = "ok" =>
        /\ Len(PagesUpTo[Len(page)]) = Len(indices)
        /\ \A k \in DOMAIN indices : IsKthPage(PagesUpTo[Len(page)][k], indices[k] + 1)
        /\ NewBlocks # {} /\ blockURL \in {before + 1, PageURL}

\* Files of one send can be told apart by their names, which number the pages
\* as the notebook does (bridge.go:419-424).
NamesTellApart ==
    /\ \A j, k \in DOMAIN uploads : uploads[j].name = uploads[k].name => j = k
    /\ Len(uploads) > 1 => \A k \in DOMAIN uploads : IsKthPage(uploads[k].pages[1], uploads[k].name)

=============================================================================
