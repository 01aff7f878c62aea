----------------------------- MODULE LspServer -----------------------------
(***************************************************************************)
(* The language server of crates/valen-lsp (server.rs) together with the   *)
(* editor it serves.                                                       *)
(*                                                                         *)
(* async-lsp delivers the editor's messages in order to handlers that take *)
(* `&mut self` and run to completion, so one handler is one action here.   *)
(* What does interleave is the editor: it keeps typing, opening and        *)
(* closing while messages travel in both directions.                       *)
(*                                                                         *)
(* A source text is a member of Text.  What the analysis can tell apart    *)
(* about a text is given by three constants: whether the parser reports an *)
(* error in it (Malformed), the top-level names it defines (Defines) and   *)
(* the names it uses (Uses).                                               *)
(***************************************************************************)
EXTENDS Naturals, Sequences, FiniteSets

CONSTANTS Uri,         \* documents
          Text,        \* source texts
          Name,        \* top-level names
          NoText,      \* "no text": a buffer that is not open
          NoVersion,   \* `version: None` of a publishDiagnostics
          NoHir,       \* `hir: None` of a document before its analysis
          Malformed,   \* texts in which the parser reports an error
          Defines,     \* Defines[t]: names a text defines at top level
          Uses,        \* Uses[t]: names a text refers to
          Disk,        \* Disk[u]: what index_workspace reads, or NoText
          MaxVersion,  \* bound: document versions the editor reaches
          MaxChannel   \* bound: messages on the way when the user acts

ASSUME TextAssumption == /\ NoText \notin Text
                         /\ Malformed \subseteq Text
                         /\ Defines \in [Text -> SUBSET Name]
                         /\ Uses \in [Text -> SUBSET Name]
                         /\ Disk \in [Uri -> Text \cup {NoText}]
ASSUME BoundAssumption == MaxVersion \in Nat /\ MaxChannel \in Nat
ASSUME NoVersionAssumption == NoVersion \notin Nat
ASSUME UriAssumption == IsFiniteSet(Uri)

VARIABLES
    \* the fields of ServerState
    documents,           \* Url -> DocumentState
    order,               \* rank of each Url in the iteration of `documents`
    file_ids,            \* Url -> FileId
    next_file_id,
    last_semantic_diags,
    \* the pipes
    inbox,               \* editor to server
    outbox,              \* server to editor
    \* the editor
    ready,               \* the reply to initialize has arrived
    buf,                 \* text of each open buffer
    ver,                 \* version of each buffer
    ranged,              \* buffers whose last change was sent as a range
    had,                 \* history: texts each buffer has ever had
    shown,               \* diagnostics on display
    \* history
    settled              \* no document went or came without publication

serverVars == <<documents, order, file_ids, next_file_id, last_semantic_diags>>
clientVars == <<ready, buf, ver, ranged, had, shown>>
vars == <<serverVars, inbox, outbox, clientVars, settled>>

-----------------------------------------------------------------------------
(* Data                                                                    *)

FileId == Nat
SemanticKind == {"duplicate", "undefined"}

\* The defs of an analysis: a name and the file whose span its def carries.
Hir == SUBSET (Name \X FileId)
DocumentState == [text : Text, file_id : FileId, hir : Hir \cup {NoHir}]
SemanticDiag == FileId \X SemanticKind \X Name

\* A diagnostic as the editor gets it, without the file: the message names
\* the uri.
LspDiag == ({"parse"} \X Text) \cup (SemanticKind \X Name)

Change == [range : BOOLEAN, text : Text]

ToServer ==
    [type : {"initialize"}]
    \cup [type : {"didOpen"}, uri : Uri, text : Text, version : Nat]
    \cup [type : {"didChange"}, uri : Uri, changes : Seq(Change), version : Nat]
    \cup [type : {"didSave", "didClose", "definition"}, uri : Uri]

Publish == [type : {"publish"}, uri : Uri, diags : SUBSET LspDiag,
            version : Nat \cup {NoVersion}]

ToClient ==
    [type : {"initialized"}] \cup Publish
    \cup [type : {"location"}, uri : Uri, name : Name, owner : FileId]
    \cup [type : {"noLocation"}, uri : Uri]

-----------------------------------------------------------------------------
(* Analysis                                                                *)

\* HashMap::values visits the entries in an order of its own.
Orders == {f \in [Uri -> 1 .. Cardinality(Uri)] :
              \A u, v \in Uri : u # v => f[u] # f[v]}

\* The order may change only when a new key is inserted (and the table
\* possibly rehashed); replacing a value or removing a key leaves it.
OrdersAfterInsert(docs, us) == IF us \subseteq DOMAIN docs THEN {order} ELSE Orders

\* resolve: every top-level item of every document becomes a def.
HirOf(docs) ==
    UNION {{<<n, docs[u].file_id>> : n \in Defines[docs[u].text]} : u \in DOMAIN docs}

\* resolve reports a name on each definition but the first one of the
\* iteration.
Duplicates(docs, ord) ==
    UNION {{<<docs[u].file_id, "duplicate", n>> :
               n \in {m \in Defines[docs[u].text] :
                        \E w \in DOMAIN docs : /\ ord[w] < ord[u]
                                               /\ m \in Defines[docs[w].text]}} :
           u \in DOMAIN docs}

\* type_check reports a name no document defines on each use.
Undefined(docs) ==
    UNION {{<<docs[u].file_id, "undefined", n>> :
               n \in {m \in Uses[docs[u].text] :
                        \A w \in DOMAIN docs : m \notin Defines[docs[w].text]}} :
           u \in DOMAIN docs}

SemanticDiagsOf(docs, ord) == Duplicates(docs, ord) \cup Undefined(docs)

\* run_cross_file_analysis on the documents docs: one pass over the items of
\* all documents, whose HIR is then stored in each of them.
Analysed(docs) ==
    [u \in DOMAIN docs |-> [docs[u] EXCEPT !.hir = HirOf(docs)]]

run_cross_file_analysis(docs) ==
    /\ documents' = Analysed(docs)
    /\ last_semantic_diags' = SemanticDiagsOf(docs, order')

ParseDiags(t) == IF t \in Malformed THEN {<<"parse", t>>} ELSE {}

\* Faulty: keeps the analysis' own form of a diagnostic.
Faulty_semantic_diags_for(fid, diags) == {d \in diags : d[1] = fid}

\* semantic_diags_for: the diagnostics whose primary span is in the file.
semantic_diags_for(fid, diags) ==
    {d \in SemanticKind \X Name : <<fid, d[1], d[2]>> \in diags}

\* What a publication for u says: a fresh parse, then the stored semantic
\* diagnostics of the file.
FileDiags(docs, diags, u) ==
    ParseDiags(docs[u].text) \cup semantic_diags_for(docs[u].file_id, diags)

\* file_id_for over a set of documents: the known keep their number, the new
\* ones get the next numbers, in some order.
NewIds(us) == {f \in [us -> next_file_id .. (next_file_id + Cardinality(us))] :
                 /\ \A u, v \in us : u # v => f[u] # f[v]
                 /\ \A u \in us : f[u] < next_file_id + Cardinality(us)}

\* Faulty: the counter is not advanced.
Faulty_file_id_for(us) ==
    LET new == us \ DOMAIN file_ids
    IN  \E f \in NewIds(new) :
          /\ file_ids' = [u \in DOMAIN file_ids \cup new |->
                            IF u \in new THEN f[u] ELSE file_ids[u]]
          /\ UNCHANGED next_file_id

file_id_for(us) ==
    LET new == us \ DOMAIN file_ids
    IN  \E f \in NewIds(new) :
          /\ file_ids' = [u \in DOMAIN file_ids \cup new |->
                            IF u \in new THEN f[u] ELSE file_ids[u]]
          /\ next_file_id' = next_file_id + Cardinality(new)

\* The documents in us, one message each, in the iteration order.
InOrder(us) == {s \in [1 .. Cardinality(us) -> us] :
                  \A i, j \in 1 .. Cardinality(us) :
                     i < j => order'[s[i]] < order'[s[j]]}

PublishMsg(u, diags, version) ==
    [type |-> "publish", uri |-> u, diags |-> diags, version |-> version]

-----------------------------------------------------------------------------
(* Server handlers                                                         *)

\* initialize: index_workspace reads every .vln file under the root that is
\* not a document yet, then analyses.  Nothing is published.
Indexed == {u \in Uri : Disk[u] # NoText} \ DOMAIN documents

IndexedDocs ==
    [u \in DOMAIN documents \cup Indexed |->
        IF u \in Indexed
          THEN [text |-> Disk[u], file_id |-> file_ids'[u], hir |-> NoHir]
          ELSE documents[u]]

Initialize ==
    /\ inbox # <<>>
    /\ Head(inbox).type = "initialize"
    /\ file_id_for(Indexed)
    /\ order' \in OrdersAfterInsert(documents, Indexed)
    /\ run_cross_file_analysis(IndexedDocs)
    /\ outbox' = Append(outbox, [type |-> "initialized"])
    /\ inbox' = Tail(inbox)
    /\ settled' = FALSE
    /\ UNCHANGED clientVars

\* analyze_and_publish: replace the document, analyse everything, publish
\* the changed document with its version and then each other one without.
\* Faulty: keeps a document that is already there, as index_workspace does.
Faulty_WithDoc(u, t) ==
    [w \in DOMAIN documents \cup {u} |->
        IF w \in DOMAIN documents THEN documents[w]
        ELSE [text |-> t, file_id |-> file_ids'[u], hir |-> NoHir]]

WithDoc(u, t) ==
    [w \in DOMAIN documents \cup {u} |->
        IF w = u THEN [text |-> t, file_id |-> file_ids'[u], hir |-> NoHir]
                 ELSE documents[w]]

\* Faulty: publishes the changed document only.
Faulty_PublishAll(u) ==
    outbox' = Append(outbox,
        PublishMsg(u, FileDiags(documents', last_semantic_diags', u),
                   Head(inbox).version))

\* Faulty: skips the others that have nothing to report.
Silent_PublishAll(u) ==
    LET loud == {w \in DOMAIN documents' \ {u} :
                   FileDiags(documents', last_semantic_diags', w) # {}}
    IN  \E s \in InOrder(loud) :
          outbox' = outbox
            \o <<PublishMsg(u, FileDiags(documents', last_semantic_diags', u),
                            Head(inbox).version)>>
            \o [i \in 1 .. Len(s) |->
                  PublishMsg(s[i], FileDiags(documents', last_semantic_diags', s[i]),
                             NoVersion)]

PublishAll(u) == \E s \in InOrder(DOMAIN documents' \ {u}) :
    outbox' = outbox
      \o <<PublishMsg(u, FileDiags(documents', last_semantic_diags', u),
                      Head(inbox).version)>>
      \o [i \in 1 .. Len(s) |->
            PublishMsg(s[i], FileDiags(documents', last_semantic_diags', s[i]),
                       NoVersion)]

analyze_and_publish(u, t) ==
    /\ file_id_for({u})
    /\ order' \in OrdersAfterInsert(documents, {u})
    /\ run_cross_file_analysis(WithDoc(u, t))
    /\ PublishAll(u)
    /\ settled' = TRUE

DidOpen ==
    /\ inbox # <<>>
    /\ Head(inbox).type = "didOpen"
    /\ analyze_and_publish(Head(inbox).uri, Head(inbox).text)
    /\ inbox' = Tail(inbox)
    /\ UNCHANGED clientVars

\* did_change looks at the last content change only, and drops it when it
\* carries a range: the server advertises full synchronisation.
\* Faulty: the first change of the batch; ranges taken as full texts.
Faulty_LastChange(m) == m.changes[1]
Faulty_Accepted(m) == m.changes # <<>>

LastChange(m) == m.changes[Len(m.changes)]
Accepted(m) == m.changes # <<>> /\ ~ LastChange(m).range

\* Faulty: an edit is analysed but published only at the next opening.
Faulty_DidChange ==
    /\ inbox # <<>>
    /\ Head(inbox).type = "didChange"
    /\ Accepted(Head(inbox))
    /\ file_id_for({Head(inbox).uri})
    /\ order' \in OrdersAfterInsert(documents, {Head(inbox).uri})
    /\ run_cross_file_analysis(WithDoc(Head(inbox).uri, LastChange(Head(inbox)).text))
    /\ inbox' = Tail(inbox)
    /\ UNCHANGED <<outbox, clientVars, settled>>

DidChange ==
    /\ inbox # <<>>
    /\ Head(inbox).type = "didChange"
    /\ Accepted(Head(inbox))
    /\ analyze_and_publish(Head(inbox).uri, LastChange(Head(inbox)).text)
    /\ inbox' = Tail(inbox)
    /\ UNCHANGED clientVars

\* Notifications that leave the state alone: a dropped change, a save.
Ignored ==
    /\ inbox # <<>>
    /\ \/ Head(inbox).type = "didSave"
       \/ Head(inbox).type = "didChange" /\ ~ Accepted(Head(inbox))
    /\ inbox' = Tail(inbox)
    /\ UNCHANGED <<serverVars, outbox, clientVars, settled>>

\* did_close: forget the document, analyse the rest, and clear the
\* diagnostics of the closed document; the others are not published again.
\* Faulty: the analysis still holds the closed document.
Stale_DidClose ==
    /\ inbox # <<>>
    /\ Head(inbox).type = "didClose"
    /\ LET u == Head(inbox).uri
       IN  /\ documents' = [w \in DOMAIN documents \ {u} |-> documents[w]]
           /\ outbox' = Append(outbox, PublishMsg(u, {}, NoVersion))
    /\ inbox' = Tail(inbox)
    /\ settled' = FALSE
    /\ UNCHANGED <<order, file_ids, next_file_id, last_semantic_diags, clientVars>>

\* Faulty: the FileId goes with the document.
Forgetful_DidClose ==
    /\ inbox # <<>>
    /\ Head(inbox).type = "didClose"
    /\ LET u == Head(inbox).uri
       IN  /\ UNCHANGED order
           /\ run_cross_file_analysis([w \in DOMAIN documents \ {u} |-> documents[w]])
           /\ outbox' = Append(outbox, PublishMsg(u, {}, NoVersion))
           /\ file_ids' = [w \in DOMAIN file_ids \ {u} |-> file_ids[w]]
    /\ inbox' = Tail(inbox)
    /\ settled' = FALSE
    /\ UNCHANGED <<next_file_id, clientVars>>

\* Faulty: the diagnostics of the closed document are not cleared.
Silent_DidClose ==
    /\ inbox # <<>>
    /\ Head(inbox).type = "didClose"
    /\ LET u == Head(inbox).uri
       IN  /\ UNCHANGED order
           /\ run_cross_file_analysis([w \in DOMAIN documents \ {u} |-> documents[w]])
    /\ inbox' = Tail(inbox)
    /\ settled' = FALSE
    /\ UNCHANGED <<file_ids, next_file_id, outbox, clientVars>>

DidClose ==
    /\ inbox # <<>>
    /\ Head(inbox).type = "didClose"
    /\ LET u == Head(inbox).uri
       IN  /\ UNCHANGED order
           /\ run_cross_file_analysis([w \in DOMAIN documents \ {u} |-> documents[w]])
           /\ outbox' = Append(outbox, PublishMsg(u, {}, NoVersion))
    /\ inbox' = Tail(inbox)
    /\ settled' = FALSE
    /\ UNCHANGED <<file_ids, next_file_id, clientVars>>

\* definition: the word under the cursor is looked up among the defs of the
\* document's HIR, that is of the whole workspace, and the answer is the span
\* of a def under the uri of the request.  Which def of that name wins depends
\* on offsets alone.
Words(t) == Defines[t] \cup Uses[t]

Candidates(u) == {d \in documents[u].hir : d[1] \in Words(documents[u].text)}

Location(u, d) == [type |-> "location", uri |-> u, name |-> d[1], owner |-> d[2]]

Definition ==
    /\ inbox # <<>>
    /\ Head(inbox).type = "definition"
    /\ LET u == Head(inbox).uri
       IN  \/ outbox' = Append(outbox, [type |-> "noLocation", uri |-> u])
           \/ /\ u \in DOMAIN documents
              /\ documents[u].hir # NoHir
              /\ \E d \in Candidates(u) : outbox' = Append(outbox, Location(u, d))
    /\ inbox' = Tail(inbox)
    /\ UNCHANGED <<serverVars, clientVars, settled>>

Server == \/ Initialize \/ DidOpen \/ DidChange \/ Ignored \/ DidClose
          \/ Definition

-----------------------------------------------------------------------------
(* The editor (external)                                                   *)

MayAct == ready /\ Len(inbox) < MaxChannel /\ Len(outbox) < MaxChannel
MayEdit(u) == MayAct /\ ver[u] < MaxVersion

Send(m) == inbox' = Append(inbox, m)

\* The text of a file that is opened is any: it may have changed on disk.
\* Versions go on when a file is opened again, where editors may begin anew:
\* the server never compares versions, it hands them back, so that the numbers
\* only serve to tell in VersionTagExact which text a publication is about.
ClientOpen(u, t) ==
    /\ MayEdit(u)
    /\ buf[u] = NoText
    /\ buf' = [buf EXCEPT ![u] = t]
    /\ ver' = [ver EXCEPT ![u] = @ + 1]
    /\ had' = [had EXCEPT ![u] = @ \cup {t}]
    /\ ranged' = ranged \ {u}
    /\ Send([type |-> "didOpen", uri |-> u, text |-> t, version |-> ver[u] + 1])
    /\ UNCHANGED <<serverVars, outbox, ready, shown, settled>>

\* One notification may carry several full texts; the last one stands.
ClientChange(u, ts) ==
    /\ MayEdit(u)
    /\ buf[u] # NoText
    /\ buf' = [buf EXCEPT ![u] = ts[Len(ts)]]
    /\ ver' = [ver EXCEPT ![u] = @ + 1]
    /\ had' = [had EXCEPT ![u] = @ \cup {ts[i] : i \in DOMAIN ts}]
    /\ ranged' = ranged \ {u}
    /\ Send([type |-> "didChange", uri |-> u, version |-> ver[u] + 1,
             changes |-> [i \in DOMAIN ts |-> [range |-> FALSE, text |-> ts[i]]]])
    /\ UNCHANGED <<serverVars, outbox, ready, shown, settled>>

\* An editor that sends a range against the advertised capability: the text of
\* the change is a fragment, the buffer becomes something else.
ClientRangeChange(u, fragment, t) ==
    /\ MayEdit(u)
    /\ buf[u] # NoText
    /\ buf' = [buf EXCEPT ![u] = t]
    /\ ver' = [ver EXCEPT ![u] = @ + 1]
    /\ had' = [had EXCEPT ![u] = @ \cup {t}]
    /\ ranged' = ranged \cup {u}
    /\ Send([type |-> "didChange", uri |-> u, version |-> ver[u] + 1,
             changes |-> <<[range |-> TRUE, text |-> fragment]>>])
    /\ UNCHANGED <<serverVars, outbox, ready, shown, settled>>

ClientClose(u) ==
    /\ MayAct
    /\ buf[u] # NoText
    /\ buf' = [buf EXCEPT ![u] = NoText]
    /\ ranged' = ranged \ {u}
    /\ Send([type |-> "didClose", uri |-> u])
    /\ UNCHANGED <<serverVars, outbox, ready, ver, had, shown, settled>>

ClientAsk(u, type) ==
    /\ MayAct
    /\ buf[u] # NoText
    /\ Send([type |-> type, uri |-> u])
    /\ UNCHANGED <<serverVars, outbox, clientVars, settled>>

ClientReceive ==
    /\ outbox # <<>>
    /\ outbox' = Tail(outbox)
    /\ LET m == Head(outbox)
       IN  /\ ready' = (ready \/ m.type = "initialized")
           /\ shown' = IF m.type = "publish"
                         THEN [shown EXCEPT ![m.uri] = m.diags]
                         ELSE shown
    /\ UNCHANGED <<serverVars, inbox, buf, ver, ranged, had, settled>>

User == \E u \in Uri :
    \/ \E t \in Text : ClientOpen(u, t)
    \/ \E t \in Text : ClientChange(u, <<t>>)
    \/ \E t1, t2 \in Text : ClientChange(u, <<t1, t2>>)
    \/ \E fragment, t \in Text : ClientRangeChange(u, fragment, t)
    \/ ClientClose(u)
    \/ \E type \in {"didSave", "definition"} : ClientAsk(u, type)

-----------------------------------------------------------------------------

\* No document, no analysis, and the editor's first request under way.
Init ==
    /\ documents = [u \in {} |-> NoText]
    /\ order \in Orders
    /\ file_ids = [u \in {} |-> 0]
    /\ next_file_id = 0
    /\ last_semantic_diags = {}
    /\ inbox = <<[type |-> "initialize"]>>
    /\ outbox = <<>>
    /\ ready = FALSE
    /\ buf = [u \in Uri |-> NoText]
    /\ ver = [u \in Uri |-> 0]
    /\ ranged = {}
    /\ had = [u \in Uri |-> {}]
    /\ shown = [u \in Uri |-> {}]
    /\ settled = TRUE

Next == Server \/ User \/ ClientReceive

Spec == Init /\ [][Next]_vars

\* The server's main loop and the editor's reader keep running; the user need
\* not do anything.
Fairness == WF_vars(Server) /\ WF_vars(ClientReceive)
FairSpec == Spec /\ Fairness

-----------------------------------------------------------------------------
(* Properties                                                              *)

\* Every variable stays in its type; `documents` and `file_ids` are maps whose
\* keys come and go (ServerState, server.rs).
TypeOK ==
    /\ DOMAIN documents \subseteq Uri
    /\ documents \in [DOMAIN documents -> DocumentState]
    /\ order \in Orders
    /\ DOMAIN file_ids \subseteq Uri
    /\ file_ids \in [DOMAIN file_ids -> FileId]
    /\ next_file_id \in FileId
    /\ last_semantic_diags \subseteq SemanticDiag
    /\ inbox \in Seq(ToServer)
    /\ outbox \in Seq(ToClient)
    /\ ready \in BOOLEAN
    /\ buf \in [Uri -> Text \cup {NoText}]
    /\ ver \in [Uri -> Nat]
    /\ ranged \subseteq Uri
    /\ had \in [Uri -> SUBSET Text]
    /\ shown \in [Uri -> SUBSET LspDiag]
    /\ settled \in BOOLEAN

\* A FileId identifies one document: no two documents that were ever seen
\* share one, and each open document carries the one it was given
\* (file_id_for; semantic_diags_for filters by it).
FileIdsIdentify ==
    /\ \A u \in DOMAIN file_ids : file_ids[u] < next_file_id
    /\ \A u, v \in DOMAIN file_ids : file_ids[u] = file_ids[v] => u = v
    /\ \A u \in DOMAIN documents :
          u \in DOMAIN file_ids /\ documents[u].file_id = file_ids[u]

\* The FileId of a document is stable: closing and reopening it, or reindexing,
\* never gives it another (doc comment of file_id_for).
FileIdsStable ==
    [][\A u \in DOMAIN file_ids :
         u \in DOMAIN file_ids' /\ file_ids'[u] = file_ids[u]]_vars

\* Between two handlers no document holds an analysis of something else: all
\* HIRs and the stored diagnostics are those of the documents as they are now,
\* whatever was opened, edited or closed in between (run_cross_file_analysis).
AnalysisFresh ==
    /\ last_semantic_diags = SemanticDiagsOf(documents, order)
    /\ \A u \in DOMAIN documents : documents[u].hir = HirOf(documents)

\* Once the editor has read everything under way it shows ds for u.
IsPublishFor(m, u) == m.type = "publish" /\ m.uri = u

WillShow(u, ds) ==
    \/ /\ \A i \in DOMAIN outbox : ~ IsPublishFor(outbox[i], u)
       /\ shown[u] = ds
    \/ \E i \in DOMAIN outbox :
          /\ IsPublishFor(outbox[i], u)
          /\ outbox[i].diags = ds
          /\ \A j \in DOMAIN outbox : j > i => ~ IsPublishFor(outbox[j], u)

\* An edit of one file changes the errors of others, and the duplicate of a
\* name may move from one file to another: once the editor has read what is
\* under way it shows, for every document, the diagnostics of the present
\* analysis, unless a document was indexed or closed since the last edit
\* (analyze_and_publish publishes every document).
ViewIsCurrent ==
    settled => \A u \in DOMAIN documents :
                  WillShow(u, FileDiags(documents, last_semantic_diags, u))

\* No diagnostics outlive their document (did_close clears them, and nothing
\* published later brings them back).
NothingShownForClosed ==
    \A u \in Uri \ DOMAIN documents : WillShow(u, {})

\* A publication that carries the version the buffer has now is about the text
\* the buffer has now, however many changes were batched in one notification:
\* its syntax errors are those of that text (did_open, did_change).
VersionTagExact ==
    \A i \in DOMAIN outbox :
       LET m == outbox[i] IN
       /\ m.type = "publish"
       /\ buf[m.uri] # NoText
       /\ m.version = ver[m.uri]
       => m.diags \cap ({"parse"} \X Text) = ParseDiags(buf[m.uri])

\* The server never works on a text the editor's buffer never had: ranges are
\* rejected "to avoid silent corruption" (did_change).
NoSilentCorruption ==
    \A u \in DOMAIN documents : documents[u].text \in had[u] \cup {Disk[u]}

\* When nothing is under way the server has the text of every open buffer,
\* but for one whose last change it had to reject.
SyncedWhenDrained ==
    inbox = <<>> => \A u \in Uri \ ranged :
       buf[u] # NoText => u \in DOMAIN documents /\ documents[u].text = buf[u]

\* After the user stops, each open buffer ends up showing its own syntax errors
\* and no others.
EditsGetShown ==
    \A u \in Uri :
       <>[](buf[u] = NoText \/ u \in ranged
            \/ shown[u] \cap ({"parse"} \X Text) = ParseDiags(buf[u]))

\* "cross-file definition jump works" (docs/requirements/REQ-TOOL.md): the
\* location returned lies in the document that holds the definition
\* (find_definition_at).
DefinitionInItsFile ==
    \A i \in DOMAIN outbox :
       outbox[i].type = "location"
         => /\ outbox[i].uri \in DOMAIN file_ids
            /\ file_ids[outbox[i].uri] = outbox[i].owner

\* "all .vln files of the workspace are joined" for resolution and type
\* checking (docs/guide/09-compiler-architecture.md): once the workspace is
\* indexed, each of its files is among the documents (did_close).
WorkspaceJoined ==
    ready => {u \in Uri : Disk[u] # NoText} \subseteq DOMAIN documents

=============================================================================
