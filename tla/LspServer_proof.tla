-------------------------- MODULE LspServer_proof --------------------------
(***************************************************************************)
(* What holds of the language server for any number of documents, texts    *)
(* and names, and without the bounds TLC needs.                            *)
(***************************************************************************)
EXTENDS LspServer, TLAPS, FiniteSetTheorems, SequenceTheorems

-----------------------------------------------------------------------------
(* The analysis returns what DocumentState and ServerState store.          *)

\* Documents before and after their analysis.
Docs(S) == [S -> DocumentState]

LEMMA HirOfType ==
    ASSUME NEW S \in SUBSET Uri, NEW docs \in Docs(S)
    PROVE  HirOf(docs) \in Hir
<1>1. \A u \in S : /\ Defines[docs[u].text] \subseteq Name
                   /\ docs[u].file_id \in FileId
  BY TextAssumption DEF Docs, DocumentState
<1>2. DOMAIN docs = S
  BY DEF Docs
<1> QED
  BY <1>1, <1>2 DEF HirOf, Hir

LEMMA SemanticDiagsType ==
    ASSUME NEW S \in SUBSET Uri, NEW docs \in Docs(S), NEW ord
    PROVE  SemanticDiagsOf(docs, ord) \subseteq SemanticDiag
<1>1. \A u \in S : /\ Defines[docs[u].text] \subseteq Name
                   /\ Uses[docs[u].text] \subseteq Name
                   /\ docs[u].file_id \in FileId
  BY TextAssumption DEF Docs, DocumentState
<1>2. DOMAIN docs = S
  BY DEF Docs
<1>3. Duplicates(docs, ord) \subseteq SemanticDiag
  BY <1>1, <1>2 DEF Duplicates, SemanticDiag, SemanticKind
<1>4. Undefined(docs) \subseteq SemanticDiag
  BY <1>1, <1>2 DEF Undefined, SemanticDiag, SemanticKind
<1> QED
  BY <1>3, <1>4 DEF SemanticDiagsOf

LEMMA AnalysedType ==
    ASSUME NEW S \in SUBSET Uri, NEW docs \in Docs(S)
    PROVE  /\ Analysed(docs) \in Docs(S)
           /\ DOMAIN Analysed(docs) = S
           /\ \A u \in S : /\ Analysed(docs)[u].text = docs[u].text
                           /\ Analysed(docs)[u].file_id = docs[u].file_id
                           /\ Analysed(docs)[u].hir = HirOf(docs)
<1>1. HirOf(docs) \in Hir
  BY HirOfType
<1>2. DOMAIN docs = S /\ \A u \in S : docs[u] \in DocumentState
  BY DEF Docs
<1> QED
  BY <1>1, <1>2 DEF Analysed, Docs, DocumentState

\* Analysis looks at texts and FileIds, and so sees the same thing in a
\* document and in its analysed form.
LEMMA AnalysisIdempotent ==
    ASSUME NEW S \in SUBSET Uri, NEW docs \in Docs(S), NEW ord
    PROVE  /\ HirOf(Analysed(docs)) = HirOf(docs)
           /\ SemanticDiagsOf(Analysed(docs), ord) = SemanticDiagsOf(docs, ord)
<1>1. DOMAIN docs = S
  BY DEF Docs
<1>2. DOMAIN Analysed(docs) = S
  BY AnalysedType
<1>3. \A u \in S : /\ Analysed(docs)[u].text = docs[u].text
                   /\ Analysed(docs)[u].file_id = docs[u].file_id
  BY AnalysedType
<1>4. HirOf(Analysed(docs)) = HirOf(docs)
  BY <1>1, <1>2, <1>3 DEF HirOf
<1>5. SemanticDiagsOf(Analysed(docs), ord) = SemanticDiagsOf(docs, ord)
  BY <1>1, <1>2, <1>3 DEF SemanticDiagsOf, Duplicates, Undefined
<1> QED
  BY <1>4, <1>5

LEMMA FileDiagsType ==
    ASSUME NEW S \in SUBSET Uri, NEW docs \in Docs(S), NEW diags, NEW u \in S
    PROVE  FileDiags(docs, diags, u) \in SUBSET LspDiag
<1>1. docs[u].text \in Text
  BY DEF Docs, DocumentState
<1> QED
  BY <1>1 DEF FileDiags, ParseDiags, semantic_diags_for, LspDiag

-----------------------------------------------------------------------------
(* Steps shared by the handlers.                                           *)

LEMMA FileIdType ==
    ASSUME TypeOK, NEW us \in SUBSET Uri, file_id_for(us)
    PROVE  /\ DOMAIN file_ids' = DOMAIN file_ids \cup us
           /\ DOMAIN file_ids' \subseteq Uri
           /\ file_ids' \in [DOMAIN file_ids' -> FileId]
           /\ next_file_id' \in FileId
           /\ next_file_id <= next_file_id'
           /\ \A u \in DOMAIN file_ids : file_ids'[u] = file_ids[u]
           /\ \A u \in us \ DOMAIN file_ids :
                 next_file_id <= file_ids'[u] /\ file_ids'[u] < next_file_id'
           /\ \A u, v \in us \ DOMAIN file_ids : 
                 file_ids'[u] = file_ids'[v] => u = v
<1> DEFINE new == us \ DOMAIN file_ids
<1>1. IsFiniteSet(new)
  BY UriAssumption, FS_Subset, new \subseteq Uri
<1>2. Cardinality(new) \in Nat
  BY <1>1, FS_CardinalityType
<1>3. PICK f \in NewIds(new) :
        /\ file_ids' = [u \in DOMAIN file_ids \cup new |->
                          IF u \in new THEN f[u] ELSE file_ids[u]]
        /\ next_file_id' = next_file_id + Cardinality(new)
  BY DEF file_id_for
<1>4. /\ next_file_id \in Nat
      /\ DOMAIN file_ids \subseteq Uri
      /\ file_ids \in [DOMAIN file_ids -> Nat]
  BY DEF TypeOK, FileId
<1>5. /\ f \in [new -> next_file_id .. (next_file_id + Cardinality(new))]
      /\ \A u, v \in new : u # v => f[u] # f[v]
      /\ \A u \in new : f[u] < next_file_id + Cardinality(new)
  BY <1>3 DEF NewIds
<1>6. \A u \in new : f[u] \in Nat /\ next_file_id <= f[u]
  BY <1>2, <1>4, <1>5
<1> HIDE DEF new
<1>7. /\ DOMAIN file_ids' = DOMAIN file_ids \cup new
      /\ \A u \in new : file_ids'[u] = f[u]
      /\ \A u \in DOMAIN file_ids \ new : file_ids'[u] = file_ids[u]
  BY <1>3
<1>8. file_ids' \in [DOMAIN file_ids' -> Nat]
  BY <1>3, <1>4, <1>6, <1>7
<1>9. next_file_id' \in Nat /\ next_file_id <= next_file_id'
  BY <1>2, <1>3, <1>4
<1>10. \A u \in new : next_file_id <= file_ids'[u] /\ file_ids'[u] < next_file_id'
  BY <1>3, <1>5, <1>6, <1>7
<1>11. \A u, v \in new : file_ids'[u] = file_ids'[v] => u = v
  BY <1>5, <1>7
<1> QED
  BY <1>4, <1>7, <1>8, <1>9, <1>10, <1>11 DEF new, FileId

LEMMA OrderType ==
    ASSUME TypeOK, NEW docs, NEW us, order' \in OrdersAfterInsert(docs, us)
    PROVE  order' \in Orders
BY DEF TypeOK, OrdersAfterInsert

\* A document inserted by a handler has a type as soon as its FileId has.
LEMMA IndexedDocsType ==
    ASSUME TypeOK, file_id_for(Indexed)
    PROVE  /\ DOMAIN documents \cup Indexed \in SUBSET Uri
           /\ IndexedDocs \in Docs(DOMAIN documents \cup Indexed)
           /\ DOMAIN IndexedDocs = DOMAIN documents \cup Indexed
<1>1. Indexed \in SUBSET Uri /\ \A u \in Indexed : Disk[u] \in Text
  BY TextAssumption DEF Indexed
<1>2. \A u \in Indexed : file_ids'[u] \in FileId
  BY <1>1, FileIdType
<1>3. \A u \in DOMAIN documents : documents[u] \in DocumentState
  BY DEF TypeOK
<1>4. /\ DOMAIN IndexedDocs = DOMAIN documents \cup Indexed
      /\ \A u \in DOMAIN IndexedDocs : IndexedDocs[u] \in DocumentState
  BY <1>1, <1>2, <1>3 DEF IndexedDocs, DocumentState
<1>5. DOMAIN documents \cup Indexed \in SUBSET Uri
  BY <1>1 DEF TypeOK
<1>6. IndexedDocs = [u \in DOMAIN IndexedDocs |-> IndexedDocs[u]]
  BY DEF IndexedDocs
<1> QED
  BY <1>4, <1>5, <1>6 DEF Docs

LEMMA WithDocType ==
    ASSUME TypeOK, NEW u \in Uri, NEW t \in Text, file_id_for({u})
    PROVE  /\ DOMAIN documents \cup {u} \in SUBSET Uri
           /\ WithDoc(u, t) \in Docs(DOMAIN documents \cup {u})
           /\ DOMAIN WithDoc(u, t) = DOMAIN documents \cup {u}
<1>1. file_ids'[u] \in FileId
  <2>1. {u} \in SUBSET Uri /\ u \in {u}
    OBVIOUS
  <2> QED  BY <2>1, FileIdType
<1>2. \A w \in DOMAIN documents : documents[w] \in DocumentState
  BY DEF TypeOK
<1> QED
  BY <1>1, <1>2 DEF TypeOK, WithDoc, Docs, DocumentState

LEMMA WithoutDocType ==
    ASSUME TypeOK, NEW u \in Uri
    PROVE  /\ DOMAIN documents \ {u} \in SUBSET Uri
           /\ [w \in DOMAIN documents \ {u} |-> documents[w]]
                 \in Docs(DOMAIN documents \ {u})
BY DEF TypeOK, Docs

LEMMA RunType ==
    ASSUME NEW S \in SUBSET Uri, NEW docs \in Docs(S), run_cross_file_analysis(docs)
    PROVE  /\ documents' = Analysed(docs)
           /\ DOMAIN documents' = S
           /\ documents' \in Docs(S)
           /\ last_semantic_diags' \subseteq SemanticDiag
BY AnalysedType, SemanticDiagsType DEF run_cross_file_analysis

-----------------------------------------------------------------------------
(* Messages.                                                               *)

LEMMA PublishType ==
    ASSUME NEW u \in Uri, NEW diags \in SUBSET LspDiag,
           NEW version \in Nat \cup {NoVersion}
    PROVE  PublishMsg(u, diags, version) \in ToClient
BY DEF PublishMsg, Publish, ToClient

LEMMA PublishAllType ==
    ASSUME TypeOK, NEW u, NEW S \in SUBSET Uri, u \in S,
           documents' \in Docs(S), DOMAIN documents' = S,
           Head(inbox).version \in Nat, PublishAll(u)
    PROVE  outbox' \in Seq(ToClient)
<1> DEFINE others == S \ {u}
           msg(w, v) == PublishMsg(w, FileDiags(documents', last_semantic_diags', w), v)
<1>1. IsFiniteSet(others) /\ Cardinality(others) \in Nat
  BY UriAssumption, FS_Subset, FS_CardinalityType, others \subseteq Uri
<1>2. PICK s \in InOrder(others) :
        outbox' = outbox \o <<msg(u, Head(inbox).version)>>
                    \o [i \in 1 .. Len(s) |-> msg(s[i], NoVersion)]
  BY DEF PublishAll
<1>3. s \in [1 .. Cardinality(others) -> others]
  BY <1>2 DEF InOrder
<1> HIDE DEF others
<1>4. s \in Seq(others) /\ Len(s) \in Nat /\ \A i \in 1 .. Len(s) : s[i] \in others
  BY <1>1, <1>3, SeqDef, ElementOfSeq, LenProperties
<1> USE DEF others
<1>5. \A w \in S : FileDiags(documents', last_semantic_diags', w) \in SUBSET LspDiag
  BY FileDiagsType
<1>6. msg(u, Head(inbox).version) \in ToClient
  BY <1>5, PublishType
<1>7. \A i \in 1 .. Len(s) : msg(s[i], NoVersion) \in ToClient
  BY <1>4, <1>5, PublishType
<1>8. [i \in 1 .. Len(s) |-> msg(s[i], NoVersion)] \in Seq(ToClient)
  BY <1>4, <1>7
<1>9. outbox \in Seq(ToClient)
  BY DEF TypeOK
<1> HIDE DEF msg
<1> QED
  BY <1>2, <1>6, <1>8, <1>9

\* The head of the inbox is a message whose fields match its type.
LEMMA InboxType ==
    ASSUME TypeOK, inbox # <<>>
    PROVE  /\ Head(inbox) \in ToServer
           /\ Tail(inbox) \in Seq(ToServer)
           /\ Head(inbox).type = "didOpen" =>
                /\ Head(inbox).uri \in Uri
                /\ Head(inbox).text \in Text
                /\ Head(inbox).version \in Nat
           /\ Head(inbox).type = "didChange" =>
                /\ Head(inbox).uri \in Uri
                /\ Head(inbox).changes \in Seq(Change)
                /\ Head(inbox).version \in Nat
           /\ Head(inbox).type \in {"didClose", "definition"} =>
                Head(inbox).uri \in Uri
<1>1. Head(inbox) \in ToServer /\ Tail(inbox) \in Seq(ToServer)
  BY DEF TypeOK
<1> QED
  BY <1>1 DEF ToServer

LEMMA LastChangeType ==
    ASSUME TypeOK, inbox # <<>>, Head(inbox).type = "didChange",
           Accepted(Head(inbox))
    PROVE  LastChange(Head(inbox)).text \in Text
<1> DEFINE cs == Head(inbox).changes
<1>1. cs \in Seq(Change) /\ cs # <<>>
  BY InboxType DEF Accepted
<1> HIDE DEF cs
<1>2. cs[Len(cs)] \in Change
  BY <1>1
<1> QED
  BY <1>2 DEF cs, LastChange, Change

\* Handling a text: what DidOpen and DidChange have in common.
LEMMA AnalyzeType ==
    ASSUME TypeOK, inbox # <<>>, NEW u \in Uri, NEW t \in Text,
           Head(inbox).version \in Nat, analyze_and_publish(u, t),
           inbox' = Tail(inbox), UNCHANGED clientVars
    PROVE  TypeOK'
<1> DEFINE S == DOMAIN documents \cup {u}
<1>1. /\ file_id_for({u})
      /\ order' \in OrdersAfterInsert(documents, {u})
      /\ run_cross_file_analysis(WithDoc(u, t))
      /\ PublishAll(u)
      /\ settled' = TRUE
  BY DEF analyze_and_publish
<1>2. S \in SUBSET Uri /\ WithDoc(u, t) \in Docs(S)
  BY <1>1, WithDocType
<1>3. /\ DOMAIN documents' = S
      /\ documents' \in Docs(S)
      /\ last_semantic_diags' \subseteq SemanticDiag
  BY <1>1, <1>2, RunType
<1>4. outbox' \in Seq(ToClient)
  BY <1>1, <1>2, <1>3, PublishAllType
<1>5. order' \in Orders
  BY <1>1, OrderType
<1>6. inbox' \in Seq(ToServer)
  BY InboxType
<1>7. /\ DOMAIN file_ids' \subseteq Uri
      /\ file_ids' \in [DOMAIN file_ids' -> FileId]
      /\ next_file_id' \in FileId
  BY <1>1, FileIdType
<1> QED
  BY <1>1, <1>2, <1>3, <1>4, <1>5, <1>6, <1>7 DEF TypeOK, Docs, clientVars

-----------------------------------------------------------------------------
(* Type correctness.                                                       *)

LEMMA InitType == Init => TypeOK
<1> SUFFICES ASSUME Init PROVE TypeOK
  OBVIOUS
<1>1. documents \in [DOMAIN documents -> DocumentState] /\ DOMAIN documents = {}
  BY DEF Init
<1>2. file_ids \in [DOMAIN file_ids -> FileId] /\ DOMAIN file_ids = {}
  BY DEF Init
<1>3. inbox \in Seq(ToServer)
  <2>1. [type |-> "initialize"] \in ToServer
    BY DEF ToServer
  <2> QED
    BY <2>1 DEF Init
<1>4. outbox \in Seq(ToClient)
  BY DEF Init
<1> QED
  BY <1>1, <1>2, <1>3, <1>4 DEF Init, TypeOK, FileId

LEMMA InitializeType == TypeOK /\ Initialize => TypeOK'
<1> SUFFICES ASSUME TypeOK, Initialize PROVE TypeOK'
  OBVIOUS
<1> DEFINE S == DOMAIN documents \cup Indexed
<1>1. S \in SUBSET Uri /\ IndexedDocs \in Docs(S)
  BY IndexedDocsType DEF Initialize
<1>2. /\ DOMAIN documents' = S
      /\ documents' \in Docs(S)
      /\ last_semantic_diags' \subseteq SemanticDiag
  BY <1>1, RunType DEF Initialize
<1>3. order' \in Orders
  BY OrderType DEF Initialize
<1>4. /\ DOMAIN file_ids' \subseteq Uri
      /\ file_ids' \in [DOMAIN file_ids' -> FileId]
      /\ next_file_id' \in FileId
  <2>1. Indexed \in SUBSET Uri
    BY DEF Indexed
  <2> QED
    BY <2>1, FileIdType DEF Initialize
<1>5. inbox' \in Seq(ToServer)
  BY InboxType DEF Initialize
<1>6. outbox' \in Seq(ToClient)
  <2>1. [type |-> "initialized"] \in ToClient
    BY DEF ToClient
  <2> QED
    BY <2>1 DEF Initialize, TypeOK
<1> QED
  BY <1>1, <1>2, <1>3, <1>4, <1>5, <1>6 DEF TypeOK, Docs, Initialize, clientVars

LEMMA DidCloseType == TypeOK /\ DidClose => TypeOK'
<1> SUFFICES ASSUME TypeOK, DidClose PROVE TypeOK'
  OBVIOUS
<1> DEFINE u == Head(inbox).uri
           S == DOMAIN documents \ {u}
<1>1. u \in Uri
  BY InboxType DEF DidClose
<1>2. S \in SUBSET Uri /\ [w \in S |-> documents[w]] \in Docs(S)
  BY <1>1, WithoutDocType
<1>3. /\ DOMAIN documents' = S
      /\ documents' \in Docs(S)
      /\ last_semantic_diags' \subseteq SemanticDiag
  BY <1>2, RunType DEF DidClose
<1>4. PublishMsg(u, {}, NoVersion) \in ToClient
  BY <1>1, PublishType
<1>5. outbox' \in Seq(ToClient)
  BY <1>4 DEF DidClose, TypeOK
<1>6. inbox' \in Seq(ToServer)
  BY InboxType DEF DidClose
<1> QED
  BY <1>2, <1>3, <1>5, <1>6 DEF TypeOK, Docs, DidClose, clientVars

LEMMA DefinitionType == TypeOK /\ Definition => TypeOK'
<1> SUFFICES ASSUME TypeOK, Definition PROVE TypeOK'
  OBVIOUS
<1> DEFINE u == Head(inbox).uri
<1>1. u \in Uri
  BY InboxType DEF Definition
<1>2. [type |-> "noLocation", uri |-> u] \in ToClient
  BY <1>1 DEF ToClient
<1>3. ASSUME u \in DOMAIN documents, documents[u].hir # NoHir,
             NEW d \in Candidates(u)
      PROVE  Location(u, d) \in ToClient
  <2>1. documents[u].hir \in Hir /\ documents[u].text \in Text
    BY <1>3 DEF TypeOK, DocumentState
  <2>2. d \in Name \X FileId
    BY <1>3, <2>1 DEF Candidates, Hir
  <2> QED
    BY <1>1, <2>2 DEF Location, ToClient
<1>4. PICK m \in ToClient : outbox' = Append(outbox, m)
  BY <1>2, <1>3 DEF Definition
<1>5. outbox' \in Seq(ToClient)
  BY <1>4 DEF TypeOK
<1>6. inbox' \in Seq(ToServer)
  BY InboxType DEF Definition
<1> QED
  BY <1>5, <1>6 DEF TypeOK, Definition, serverVars, clientVars

\* What the editor does: each action sends one message of its type.
LEMMA EditorType == TypeOK /\ User => TypeOK'
<1> SUFFICES ASSUME TypeOK, NEW u \in Uri,
                    \/ \E t \in Text : ClientOpen(u, t)
                    \/ \E t \in Text : ClientChange(u, <<t>>)
                    \/ \E t1, t2 \in Text : ClientChange(u, <<t1, t2>>)
                    \/ \E fragment, t \in Text : ClientRangeChange(u, fragment, t)
                    \/ ClientClose(u)
                    \/ \E type \in {"didSave", "definition"} : ClientAsk(u, type)
             PROVE  TypeOK'
  BY DEF User
<1>0. ver[u] + 1 \in Nat
  BY DEF TypeOK
<1>1. ASSUME NEW t \in Text, ClientOpen(u, t) PROVE TypeOK'
  <2>1. [type |-> "didOpen", uri |-> u, text |-> t, version |-> ver[u] + 1] \in ToServer
    BY <1>0 DEF ToServer
  <2>2. inbox' \in Seq(ToServer)
    BY <1>1, <2>1 DEF ClientOpen, Send, TypeOK
  <2> QED
    BY <1>0, <1>1, <2>2 DEF ClientOpen, TypeOK, serverVars
<1>2. ASSUME NEW ts \in Seq(Text), ts # <<>>, ClientChange(u, ts) PROVE TypeOK'
  <2> DEFINE cs == [i \in DOMAIN ts |-> [range |-> FALSE, text |-> ts[i]]]
  <2>1. cs \in Seq(Change)
    <3>1. DOMAIN ts = 1 .. Len(ts) /\ Len(ts) \in Nat /\ \A i \in 1 .. Len(ts) : ts[i] \in Text
      OBVIOUS
    <3> QED
      BY <3>1 DEF Change
  <2> HIDE DEF cs
  <2>2. [type |-> "didChange", uri |-> u, version |-> ver[u] + 1, changes |-> cs]
          \in ToServer
    BY <1>0, <2>1 DEF ToServer
  <2>3. inbox' \in Seq(ToServer)
    BY <1>2, <2>2 DEF ClientChange, Send, TypeOK, cs
  <2>4. ts[Len(ts)] \in Text /\ {ts[i] : i \in DOMAIN ts} \subseteq Text
    BY <1>2
  <2> QED
    BY <1>0, <1>2, <2>3, <2>4 DEF ClientChange, TypeOK, serverVars
<1>3. ASSUME NEW fragment \in Text, NEW t \in Text, ClientRangeChange(u, fragment, t)
      PROVE  TypeOK'
  <2> DEFINE cs == <<[range |-> TRUE, text |-> fragment]>>
  <2>1. cs \in Seq(Change)
    BY DEF Change
  <2> HIDE DEF cs
  <2>2. [type |-> "didChange", uri |-> u, version |-> ver[u] + 1, changes |-> cs]
          \in ToServer
    BY <1>0, <2>1 DEF ToServer
  <2>3. inbox' \in Seq(ToServer)
    BY <1>3, <2>2 DEF ClientRangeChange, Send, TypeOK, cs
  <2> QED
    BY <1>0, <1>3, <2>3 DEF ClientRangeChange, TypeOK, serverVars
<1>4. ASSUME ClientClose(u) PROVE TypeOK'
  <2>1. [type |-> "didClose", uri |-> u] \in ToServer
    BY DEF ToServer
  <2>2. inbox' \in Seq(ToServer)
    BY <1>4, <2>1 DEF ClientClose, Send, TypeOK
  <2> QED
    BY <1>4, <2>2 DEF ClientClose, TypeOK, serverVars
<1>5. ASSUME NEW type \in {"didSave", "definition"}, ClientAsk(u, type) PROVE TypeOK'
  <2>1. [type |-> type, uri |-> u] \in ToServer
    BY DEF ToServer
  <2>2. inbox' \in Seq(ToServer)
    BY <1>5, <2>1 DEF ClientAsk, Send, TypeOK
  <2> QED
    BY <1>5, <2>2 DEF ClientAsk, TypeOK, serverVars, clientVars
<1>6. ASSUME NEW t \in Text, ClientChange(u, <<t>>) PROVE TypeOK'
  <2>1. <<t>> \in Seq(Text) /\ <<t>> # <<>>
    OBVIOUS
  <2> QED
    BY <1>2, <1>6, <2>1
<1>7. ASSUME NEW t1 \in Text, NEW t2 \in Text, ClientChange(u, <<t1, t2>>) PROVE TypeOK'
  <2>1. <<t1, t2>> \in Seq(Text) /\ <<t1, t2>> # <<>>
    OBVIOUS
  <2> QED
    BY <1>2, <1>7, <2>1
<1> QED
  BY <1>1, <1>3, <1>4, <1>5, <1>6, <1>7

LEMMA ReceiveType == TypeOK /\ ClientReceive => TypeOK'
<1> SUFFICES ASSUME TypeOK, ClientReceive PROVE TypeOK'
  OBVIOUS
<1> DEFINE m == Head(outbox)
<1>1. m \in ToClient /\ outbox' \in Seq(ToClient)
  BY DEF TypeOK, ClientReceive
<1>2. m.type = "publish" => m.uri \in Uri /\ m.diags \in SUBSET LspDiag
  BY <1>1 DEF ToClient, Publish
<1>3. shown' \in [Uri -> SUBSET LspDiag]
  BY <1>2 DEF ClientReceive, TypeOK
<1>4. ready' \in BOOLEAN
  BY DEF ClientReceive, TypeOK
<1> QED
  BY <1>1, <1>3, <1>4 DEF TypeOK, ClientReceive, serverVars

LEMMA NextType == TypeOK /\ [Next]_vars => TypeOK'
<1> SUFFICES ASSUME TypeOK, [Next]_vars PROVE TypeOK'
  OBVIOUS
<1>1. CASE Initialize
  BY <1>1, InitializeType
<1>2. CASE DidOpen
  <2>1. /\ Head(inbox).uri \in Uri
        /\ Head(inbox).text \in Text
        /\ Head(inbox).version \in Nat
    BY <1>2, InboxType DEF DidOpen
  <2> QED
    BY <1>2, <2>1, AnalyzeType DEF DidOpen
<1>3. CASE DidChange
  <2>1. /\ Head(inbox).uri \in Uri
        /\ LastChange(Head(inbox)).text \in Text
        /\ Head(inbox).version \in Nat
    BY <1>3, InboxType, LastChangeType DEF DidChange
  <2> QED
    BY <1>3, <2>1, AnalyzeType DEF DidChange
<1>4. CASE Ignored
  <2>1. inbox' \in Seq(ToServer)
    BY <1>4, InboxType DEF Ignored
  <2> QED
    BY <1>4, <2>1 DEF TypeOK, Ignored, serverVars, clientVars
<1>5. CASE DidClose
  BY <1>5, DidCloseType
<1>6. CASE Definition
  BY <1>6, DefinitionType
<1>7. CASE User
  BY <1>7, EditorType
<1>8. CASE ClientReceive
  BY <1>8, ReceiveType
<1>9. CASE UNCHANGED vars
  BY <1>9 DEF vars, serverVars, clientVars, TypeOK
<1> QED
  BY <1>1, <1>2, <1>3, <1>4, <1>5, <1>6, <1>7, <1>8, <1>9 DEF Next, Server

\* Every variable of the server, the pipes and the editor stays in its type,
\* whatever the order of edits, closings, requests and replies.
THEOREM TypeCorrect == Spec => []TypeOK
<1> QED
  BY InitType, NextType, PTL DEF Spec

-----------------------------------------------------------------------------
(* FileIds.                                                                *)

\* A handler that numbers the documents us, and leaves each document with
\* its number, keeps the numbering one-to-one.
LEMMA FileIdStep ==
    ASSUME TypeOK, FileIdsIdentify, NEW us \in SUBSET Uri, file_id_for(us),
           NEW S \in SUBSET Uri, S \subseteq DOMAIN documents \cup us,
           NEW docs \in Docs(S), documents' = Analysed(docs),
           \A u \in S : docs[u].file_id = IF u \in us THEN file_ids'[u]
                                          ELSE documents[u].file_id
    PROVE  FileIdsIdentify'
<1>1. /\ DOMAIN file_ids' = DOMAIN file_ids \cup us
      /\ file_ids' \in [DOMAIN file_ids' -> Nat]
      /\ next_file_id \in Nat /\ next_file_id' \in Nat
      /\ next_file_id <= next_file_id'
      /\ \A u \in DOMAIN file_ids : file_ids'[u] = file_ids[u]
      /\ \A u \in us \ DOMAIN file_ids :
            next_file_id <= file_ids'[u] /\ file_ids'[u] < next_file_id'
      /\ \A u, v \in us \ DOMAIN file_ids :
            file_ids'[u] = file_ids'[v] => u = v
  BY FileIdType DEF FileId, TypeOK
<1>2. \A u \in DOMAIN file_ids : file_ids[u] \in Nat /\ file_ids[u] < next_file_id
  BY DEF TypeOK, FileId, FileIdsIdentify
<1>3. \A u, v \in DOMAIN file_ids : file_ids[u] = file_ids[v] => u = v
  BY DEF FileIdsIdentify
<1>4. \A u \in DOMAIN file_ids' : file_ids'[u] \in Nat /\ file_ids'[u] < next_file_id'
  BY <1>1, <1>2
<1>5. \A u, v \in DOMAIN file_ids' : file_ids'[u] = file_ids'[v] => u = v
  BY <1>1, <1>2, <1>3
<1>6. /\ DOMAIN documents' = S
      /\ \A u \in S : documents'[u].file_id = docs[u].file_id
  BY AnalysedType
<1>7. \A u \in S : u \in DOMAIN file_ids' /\ documents'[u].file_id = file_ids'[u]
  BY <1>1, <1>6 DEF FileIdsIdentify
<1> QED
  BY <1>4, <1>5, <1>6, <1>7 DEF FileIdsIdentify

\* analyze_and_publish and index_workspace number what they insert.
LEMMA WithDocIds ==
    ASSUME TypeOK, FileIdsIdentify, NEW u \in Uri, NEW t \in Text,
           file_id_for({u}), run_cross_file_analysis(WithDoc(u, t))
    PROVE  FileIdsIdentify'
<1> DEFINE S == DOMAIN documents \cup {u}
<1>1. S \in SUBSET Uri /\ WithDoc(u, t) \in Docs(S)
  BY WithDocType
<1>2. documents' = Analysed(WithDoc(u, t))
  BY DEF run_cross_file_analysis
<1>3. \A w \in S : WithDoc(u, t)[w].file_id =
                     IF w \in {u} THEN file_ids'[w] ELSE documents[w].file_id
  BY DEF WithDoc
<1> QED
  BY <1>1, <1>2, <1>3, FileIdStep

LEMMA FileIdsNext == TypeOK /\ FileIdsIdentify /\ [Next]_vars => FileIdsIdentify'
<1> SUFFICES ASSUME TypeOK, FileIdsIdentify, [Next]_vars PROVE FileIdsIdentify'
  OBVIOUS
<1>1. CASE Initialize
  <2> DEFINE S == DOMAIN documents \cup Indexed
  <2>1. S \in SUBSET Uri /\ IndexedDocs \in Docs(S) /\ Indexed \in SUBSET Uri
    BY <1>1, IndexedDocsType DEF Initialize
  <2>2. documents' = Analysed(IndexedDocs) /\ file_id_for(Indexed)
    BY <1>1 DEF Initialize, run_cross_file_analysis
  <2>3. \A u \in S : IndexedDocs[u].file_id =
                       IF u \in Indexed THEN file_ids'[u] ELSE documents[u].file_id
    BY DEF IndexedDocs
  <2> QED
    BY <2>1, <2>2, <2>3, FileIdStep
<1>2. CASE DidOpen
  <2>1. Head(inbox).uri \in Uri /\ Head(inbox).text \in Text
    BY <1>2, InboxType DEF DidOpen
  <2> QED
    BY <1>2, <2>1, WithDocIds DEF DidOpen, analyze_and_publish
<1>3. CASE DidChange
  <2>1. Head(inbox).uri \in Uri /\ LastChange(Head(inbox)).text \in Text
    BY <1>3, InboxType, LastChangeType DEF DidChange
  <2> QED
    BY <1>3, <2>1, WithDocIds DEF DidChange, analyze_and_publish
<1>4. CASE DidClose
  <2> DEFINE u == Head(inbox).uri
             S == DOMAIN documents \ {u}
             docs == [w \in S |-> documents[w]]
  <2>1. u \in Uri
    BY <1>4, InboxType DEF DidClose
  <2>2. S \in SUBSET Uri /\ docs \in Docs(S)
    BY <2>1, WithoutDocType
  <2>3. documents' = Analysed(docs) /\ UNCHANGED <<file_ids, next_file_id>>
    BY <1>4 DEF DidClose, run_cross_file_analysis
  <2>4. /\ DOMAIN documents' = S
        /\ \A w \in S : documents'[w].file_id = documents[w].file_id
    BY <2>2, <2>3, AnalysedType
  <2> QED
    BY <2>3, <2>4 DEF FileIdsIdentify
<1>5. CASE UNCHANGED <<documents, file_ids, next_file_id>>
  BY <1>5 DEF FileIdsIdentify
<1> QED
  BY <1>1, <1>2, <1>3, <1>4, <1>5
     DEF Next, Server, Ignored, Definition, User, ClientOpen, ClientChange,
         ClientRangeChange, ClientClose, ClientAsk, ClientReceive, vars, serverVars

\* A FileId identifies one document, however many were opened and closed:
\* the filter of semantic_diags_for selects exactly that document's
\* diagnostics.
THEOREM FileIdsCorrect == Spec => []FileIdsIdentify
<1>1. Init => FileIdsIdentify
  BY DEF Init, FileIdsIdentify
<1> QED
  BY <1>1, FileIdsNext, TypeCorrect, PTL DEF Spec

\* No step changes the FileId a document has got.
THEOREM FileIdsStayCorrect == Spec => FileIdsStable
<1> DEFINE Kept == \A u \in DOMAIN file_ids :
                      u \in DOMAIN file_ids' /\ file_ids'[u] = file_ids[u]
<1>1. TypeOK /\ [Next]_vars => [Kept]_vars
  <2> SUFFICES ASSUME TypeOK, [Next]_vars PROVE Kept
    OBVIOUS
  <2>1. ASSUME NEW us \in SUBSET Uri, file_id_for(us) PROVE Kept
    BY <2>1, FileIdType
  <2>2. CASE Initialize
    BY <2>1, <2>2, Indexed \in SUBSET Uri DEF Initialize, Indexed
  <2>3. CASE DidOpen
    <3>1. {Head(inbox).uri} \in SUBSET Uri
      BY <2>3, InboxType DEF DidOpen
    <3> QED
      BY <2>1, <2>3, <3>1 DEF DidOpen, analyze_and_publish
  <2>4. CASE DidChange
    <3>1. {Head(inbox).uri} \in SUBSET Uri
      BY <2>4, InboxType DEF DidChange
    <3> QED
      BY <2>1, <2>4, <3>1 DEF DidChange, analyze_and_publish
  <2>5. CASE UNCHANGED file_ids
    BY <2>5
  <2> QED
    BY <2>2, <2>3, <2>4, <2>5
       DEF Next, Server, Ignored, DidClose, Definition, User, ClientOpen,
           ClientChange, ClientRangeChange, ClientClose, ClientAsk, ClientReceive,
           vars, serverVars
<1> QED
  BY <1>1, TypeCorrect, PTL DEF Spec, FileIdsStable

-----------------------------------------------------------------------------
(* The stored analysis.                                                    *)

LEMMA RunFresh ==
    ASSUME NEW S \in SUBSET Uri, NEW docs \in Docs(S), run_cross_file_analysis(docs)
    PROVE  AnalysisFresh'
<1>1. documents' = Analysed(docs) /\ last_semantic_diags' = SemanticDiagsOf(docs, order')
  BY DEF run_cross_file_analysis
<1>2. last_semantic_diags' = SemanticDiagsOf(documents', order')
  BY <1>1, AnalysisIdempotent
<1>3. DOMAIN documents' = S /\ \A u \in S : documents'[u].hir = HirOf(documents')
  BY <1>1, AnalysedType, AnalysisIdempotent
<1> QED
  BY <1>2, <1>3 DEF AnalysisFresh

LEMMA FreshNext == TypeOK /\ AnalysisFresh /\ [Next]_vars => AnalysisFresh'
<1> SUFFICES ASSUME TypeOK, AnalysisFresh, [Next]_vars PROVE AnalysisFresh'
  OBVIOUS
<1>1. CASE Initialize
  BY <1>1, IndexedDocsType, RunFresh DEF Initialize
<1>2. CASE DidOpen
  <2>1. Head(inbox).uri \in Uri /\ Head(inbox).text \in Text
    BY <1>2, InboxType DEF DidOpen
  <2> QED
    BY <1>2, <2>1, WithDocType, RunFresh DEF DidOpen, analyze_and_publish
<1>3. CASE DidChange
  <2>1. Head(inbox).uri \in Uri /\ LastChange(Head(inbox)).text \in Text
    BY <1>3, InboxType, LastChangeType DEF DidChange
  <2> QED
    BY <1>3, <2>1, WithDocType, RunFresh DEF DidChange, analyze_and_publish
<1>4. CASE DidClose
  <2>1. Head(inbox).uri \in Uri
    BY <1>4, InboxType DEF DidClose
  <2> QED
    BY <1>4, <2>1, WithoutDocType, RunFresh DEF DidClose
<1>5. CASE UNCHANGED <<documents, order, last_semantic_diags>>
  BY <1>5 DEF AnalysisFresh
<1> QED
  BY <1>1, <1>2, <1>3, <1>4, <1>5
     DEF Next, Server, Ignored, Definition, User, ClientOpen, ClientChange,
         ClientRangeChange, ClientClose, ClientAsk, ClientReceive, vars, serverVars

\* Between two handlers every stored analysis is that of the present
\* documents.
THEOREM FreshCorrect == Spec => []AnalysisFresh
<1>1. Init => AnalysisFresh
  BY DEF Init, AnalysisFresh, SemanticDiagsOf, Duplicates, Undefined
<1> QED
  BY <1>1, FreshNext, TypeCorrect, PTL DEF Spec

-----------------------------------------------------------------------------
(* What the editor will show.                                              *)

LEMMA AppendShows ==
    ASSUME TypeOK, NEW m \in ToClient, outbox' = Append(outbox, m),
           UNCHANGED shown, NEW u, IsPublishFor(m, u)
    PROVE  WillShow(u, m.diags)'
<1>1. outbox \in Seq(ToClient)
  BY DEF TypeOK
<1>2. /\ Len(outbox) \in Nat
      /\ DOMAIN outbox' = 1 .. (Len(outbox) + 1)
      /\ outbox'[Len(outbox) + 1] = m
  BY <1>1
<1> QED
  BY <1>2 DEF WillShow

LEMMA AppendKeeps ==
    ASSUME TypeOK, NEW m \in ToClient, outbox' = Append(outbox, m),
           UNCHANGED shown, NEW u, NEW ds, ~ IsPublishFor(m, u), WillShow(u, ds)
    PROVE  WillShow(u, ds)'
<1>1. outbox \in Seq(ToClient)
  BY DEF TypeOK
<1>2. /\ Len(outbox) \in Nat
      /\ DOMAIN outbox = 1 .. Len(outbox)
      /\ DOMAIN outbox' = 1 .. (Len(outbox) + 1)
      /\ outbox'[Len(outbox) + 1] = m
      /\ \A i \in 1 .. Len(outbox) : outbox'[i] = outbox[i]
  BY <1>1
<1>3. CASE \A i \in DOMAIN outbox : ~ IsPublishFor(outbox[i], u)
  <2>1. shown[u] = ds
    BY <1>3 DEF WillShow
  <2>2. \A i \in DOMAIN outbox' : ~ IsPublishFor(outbox'[i], u)
    BY <1>2, <1>3
  <2> QED
    BY <2>1, <2>2 DEF WillShow
<1>4. CASE \E i \in DOMAIN outbox :
             /\ IsPublishFor(outbox[i], u)
             /\ outbox[i].diags = ds
             /\ \A j \in DOMAIN outbox : j > i => ~ IsPublishFor(outbox[j], u)
  <2>1. PICK i \in DOMAIN outbox :
             /\ IsPublishFor(outbox[i], u)
             /\ outbox[i].diags = ds
             /\ \A j \in DOMAIN outbox : j > i => ~ IsPublishFor(outbox[j], u)
    BY <1>4
  <2>2. i \in DOMAIN outbox' /\ outbox'[i] = outbox[i]
    BY <1>2, <2>1
  <2>3. \A j \in DOMAIN outbox' : j > i => ~ IsPublishFor(outbox'[j], u)
    BY <1>2, <2>1
  <2> QED
    BY <2>1, <2>2, <2>3 DEF WillShow
<1> QED
  BY <1>3, <1>4 DEF WillShow

LEMMA ReceiveKeeps ==
    ASSUME TypeOK, ClientReceive, NEW u \in Uri, NEW ds, WillShow(u, ds)
    PROVE  WillShow(u, ds)'
<1> DEFINE m == Head(outbox)
<1>1. outbox \in Seq(ToClient) /\ outbox # <<>> /\ outbox' = Tail(outbox)
  BY DEF TypeOK, ClientReceive
<1>2. /\ Len(outbox) \in Nat /\ Len(outbox) >= 1
      /\ DOMAIN outbox = 1 .. Len(outbox)
      /\ DOMAIN outbox' = 1 .. (Len(outbox) - 1)
      /\ outbox[1] = m
      /\ \A i \in 1 .. (Len(outbox) - 1) : outbox'[i] = outbox[i + 1]
  BY <1>1, HeadTailProperties, EmptySeq, LenProperties
<1>3. shown' = IF m.type = "publish" THEN [shown EXCEPT ![m.uri] = m.diags] ELSE shown
  BY DEF ClientReceive
<1>4. shown \in [Uri -> SUBSET LspDiag]
  BY DEF TypeOK
<1>5. CASE \A i \in DOMAIN outbox : ~ IsPublishFor(outbox[i], u)
  <2>1. shown[u] = ds
    BY <1>5 DEF WillShow
  <2>2. ~ IsPublishFor(m, u)
    BY <1>2, <1>5
  <2>3. shown'[u] = ds
    BY <1>3, <1>4, <2>1, <2>2 DEF IsPublishFor
  <2>4. \A i \in DOMAIN outbox' : ~ IsPublishFor(outbox'[i], u)
    BY <1>2, <1>5
  <2> QED
    BY <2>3, <2>4 DEF WillShow
<1>6. CASE \E i \in DOMAIN outbox :
             /\ IsPublishFor(outbox[i], u)
             /\ outbox[i].diags = ds
             /\ \A j \in DOMAIN outbox : j > i => ~ IsPublishFor(outbox[j], u)
  <2>1. PICK i \in DOMAIN outbox :
             /\ IsPublishFor(outbox[i], u)
             /\ outbox[i].diags = ds
             /\ \A j \in DOMAIN outbox : j > i => ~ IsPublishFor(outbox[j], u)
    BY <1>6
  <2>2. CASE i = 1
    <3>1. shown'[u] = ds
      BY <1>2, <1>3, <1>4, <2>1, <2>2 DEF IsPublishFor
    <3>2. \A j \in DOMAIN outbox' : ~ IsPublishFor(outbox'[j], u)
      <4> SUFFICES ASSUME NEW j \in DOMAIN outbox'
                   PROVE  ~ IsPublishFor(outbox'[j], u)
        OBVIOUS
      <4>1. j + 1 \in DOMAIN outbox /\ j + 1 > 1 /\ outbox'[j] = outbox[j + 1]
        BY <1>2
      <4> QED
        BY <2>1, <2>2, <4>1
    <3> QED
      BY <3>1, <3>2 DEF WillShow
  <2>3. CASE i # 1
    <3>1. i - 1 \in DOMAIN outbox' /\ outbox'[i - 1] = outbox[i]
      BY <1>2, <2>1, <2>3
    <3>2. \A j \in DOMAIN outbox' : j > i - 1 => ~ IsPublishFor(outbox'[j], u)
      <4> SUFFICES ASSUME NEW j \in DOMAIN outbox', j > i - 1
                   PROVE  ~ IsPublishFor(outbox'[j], u)
        OBVIOUS
      <4>1. j + 1 \in DOMAIN outbox /\ j + 1 > i /\ outbox'[j] = outbox[j + 1]
        BY <1>2, <2>1
      <4> QED
        BY <2>1, <4>1
    <3> QED
      BY <2>1, <3>1, <3>2 DEF WillShow
  <2> QED
    BY <2>2, <2>3
<1> QED
  BY <1>5, <1>6 DEF WillShow

\* InOrder lists every document of the set, once.
LEMMA InOrderIsOnto ==
    ASSUME NEW T \in SUBSET Uri, NEW s \in InOrder(T), NEW w \in T,
           order' \in Orders
    PROVE  \E i \in 1 .. Cardinality(T) :
              s[i] = w /\ \A j \in 1 .. Cardinality(T) : s[j] = w => j = i
<1> DEFINE n == Cardinality(T)
<1>1. IsFiniteSet(T) /\ n \in Nat
  BY UriAssumption, FS_Subset, FS_CardinalityType
<1>2. /\ s \in [1 .. n -> T]
      /\ \A i, j \in 1 .. n : i < j => order'[s[i]] < order'[s[j]]
  BY DEF InOrder
<1>3. \A u \in Uri : order'[u] \in Nat
  <2>1. IsFiniteSet(Uri) /\ Cardinality(Uri) \in Nat
    BY UriAssumption, FS_CardinalityType
  <2> QED
    BY <2>1 DEF Orders
<1> HIDE DEF n
<1>4. \A i, j \in 1 .. n : s[i] = s[j] => i = j
  <2> SUFFICES ASSUME NEW i \in 1 .. n, NEW j \in 1 .. n, s[i] = s[j], i # j
               PROVE  FALSE
    OBVIOUS
  <2>1. order'[s[i]] \in Nat /\ order'[s[i]] = order'[s[j]]
    BY <1>2, <1>3
  <2>2. i < j \/ j < i
    BY <1>1
  <2> QED
    BY <1>2, <2>1, <2>2
<1>5. s \in Injection(1 .. n, T)
  BY <1>2, <1>4 DEF Injection, IsInjective
<1>6. Cardinality(1 .. n) = n
  BY <1>1, FS_Interval
<1>7. s \in Surjection(1 .. n, T)
  BY <1>1, <1>5, <1>6, FS_Injection DEF n
<1> QED
  BY <1>4, <1>7 DEF Surjection, n

\* After a round of publications every document will show its diagnostics,
\* and what is shown for anything else does not change.
LEMMA PublishAllShows ==
    ASSUME TypeOK, NEW u, NEW S \in SUBSET Uri, u \in S,
           documents' \in Docs(S), DOMAIN documents' = S,
           Head(inbox).version \in Nat, order' \in Orders,
           PublishAll(u), UNCHANGED shown
    PROVE  /\ \A w \in S :
                 WillShow(w, FileDiags(documents, last_semantic_diags, w))'
           /\ \A w \in Uri \ S : \A ds : WillShow(w, ds) => WillShow(w, ds)'
<1> DEFINE others == S \ {u}
           msg(w, v) == PublishMsg(w, FileDiags(documents', last_semantic_diags', w), v)
           n == Cardinality(others)
           L == Len(outbox)
<1>1. IsFiniteSet(others) /\ n \in Nat /\ others \in SUBSET Uri
  BY UriAssumption, FS_Subset, FS_CardinalityType, others \subseteq Uri
<1>2. PICK s \in InOrder(others) :
        outbox' = outbox \o <<msg(u, Head(inbox).version)>>
                    \o [i \in 1 .. Len(s) |-> msg(s[i], NoVersion)]
  BY DEF PublishAll
<1>3. s \in [1 .. n -> others]
  BY <1>2 DEF InOrder
<1> HIDE DEF others, n
<1>4. Len(s) = n /\ \A i \in 1 .. n : s[i] \in others
  BY <1>1, <1>3
<1>5. outbox \in Seq(ToClient) /\ L \in Nat
  BY DEF TypeOK
<1>6. \A w, v : msg(w, v).type = "publish" /\ msg(w, v).uri = w
                /\ msg(w, v).diags = FileDiags(documents', last_semantic_diags', w)
  BY DEF PublishMsg
<1> DEFINE first == <<msg(u, Head(inbox).version)>>
           rest == [i \in 1 .. Len(s) |-> msg(s[i], NoVersion)]
<1>7. \A w \in S : FileDiags(documents', last_semantic_diags', w) \in SUBSET LspDiag
  BY FileDiagsType
<1>8. first \in Seq(ToClient) /\ Len(first) = 1
        /\ first[1] = msg(u, Head(inbox).version)
  BY <1>7, PublishType
<1>9. /\ rest \in Seq(ToClient) /\ Len(rest) = n
      /\ \A i \in 1 .. n : rest[i] = msg(s[i], NoVersion)
  <2>1. \A i \in 1 .. n : msg(s[i], NoVersion) \in ToClient
    BY <1>4, <1>7, PublishType DEF others
  <2> HIDE DEF msg
  <2> QED
    BY <1>1, <1>4, <2>1
<1> HIDE DEF msg, first, rest, L
<1>10. /\ DOMAIN outbox' = 1 .. (L + 1 + n)
       /\ \A i \in 1 .. L : outbox'[i] = outbox[i]
       /\ outbox'[L + 1] = msg(u, Head(inbox).version)
       /\ \A i \in 1 .. n : outbox'[L + 1 + i] = msg(s[i], NoVersion)
  <2>1. outbox' = (outbox \o first) \o rest
    BY <1>2 DEF first, rest, msg
  <2>2. /\ outbox \o first \in Seq(ToClient)
        /\ Len(outbox \o first) = L + 1
        /\ \A i \in 1 .. L + 1 : (outbox \o first)[i] =
                IF i <= L THEN outbox[i] ELSE first[i - L]
    BY <1>5, <1>8, ConcatProperties DEF L
  <2> DEFINE head == outbox \o first
  <2> HIDE DEF head
  <2>3. /\ outbox' \in Seq(ToClient)
        /\ Len(outbox') = L + 1 + n
        /\ \A i \in 1 .. (L + 1 + n) : outbox'[i] =
                IF i <= L + 1 THEN head[i] ELSE rest[i - (L + 1)]
    <3>1. head \in Seq(ToClient) /\ Len(head) = L + 1 /\ outbox' = head \o rest
      BY <2>1, <2>2 DEF head
    <3> QED
      BY <1>9, <3>1, ConcatProperties
  <2>4. DOMAIN outbox' = 1 .. (L + 1 + n)
    BY <2>3, LenProperties
  <2>5. \A i \in 1 .. L : outbox'[i] = outbox[i]
    <3> SUFFICES ASSUME NEW i \in 1 .. L PROVE outbox'[i] = outbox[i]
      OBVIOUS
    <3>1. i \in 1 .. (L + 1) /\ i \in 1 .. (L + 1 + n) /\ i <= L + 1 /\ i <= L
      BY <1>1, <1>5
    <3>2. outbox'[i] = head[i]
      BY <2>3, <3>1
    <3>3. head[i] = outbox[i]
      BY <2>2, <3>1 DEF head
    <3> QED
      BY <3>2, <3>3
  <2>6. outbox'[L + 1] = msg(u, Head(inbox).version)
    BY <1>1, <1>5, <1>8, <2>2, <2>3 DEF head
  <2>7. \A i \in 1 .. n : outbox'[L + 1 + i] = msg(s[i], NoVersion)
    <3> SUFFICES ASSUME NEW i \in 1 .. n
                 PROVE  outbox'[L + 1 + i] = msg(s[i], NoVersion)
      OBVIOUS
    <3>1. L + 1 + i \in 1 .. (L + 1 + n) /\ ~ (L + 1 + i <= L + 1)
            /\ (L + 1 + i) - (L + 1) = i
      BY <1>1, <1>5
    <3> QED
      BY <1>9, <2>3, <3>1
  <2> QED
    BY <2>4, <2>5, <2>6, <2>7
<1>11. ASSUME NEW w \in S
       PROVE  WillShow(w, FileDiags(documents, last_semantic_diags, w))'
  <2>1. CASE w = u
    <3>1. L + 1 \in DOMAIN outbox' /\ IsPublishFor(outbox'[L + 1], w)
            /\ outbox'[L + 1].diags = FileDiags(documents', last_semantic_diags', w)
      BY <1>1, <1>5, <1>6, <1>10, <2>1 DEF IsPublishFor
    <3>2. \A j \in DOMAIN outbox' : j > L + 1 => ~ IsPublishFor(outbox'[j], w)
      <4> SUFFICES ASSUME NEW j \in DOMAIN outbox', j > L + 1
                   PROVE  ~ IsPublishFor(outbox'[j], w)
        OBVIOUS
      <4>1. j - (L + 1) \in 1 .. n /\ j = L + 1 + (j - (L + 1))
        BY <1>1, <1>5, <1>10
      <4>2. outbox'[j].uri \in others
        BY <1>4, <1>6, <1>10, <4>1
      <4> QED
        BY <2>1, <4>2 DEF IsPublishFor, others
    <3> QED
      BY <3>1, <3>2 DEF WillShow
  <2>2. CASE w # u
    <3>1. w \in others
      BY <2>2 DEF others
    <3>2. PICK i \in 1 .. n : s[i] = w /\ \A j \in 1 .. n : s[j] = w => j = i
      BY <1>1, <1>2, <3>1, InOrderIsOnto DEF n
    <3> DEFINE k == L + 1 + i
    <3>3. k \in DOMAIN outbox' /\ IsPublishFor(outbox'[k], w)
            /\ outbox'[k].diags = FileDiags(documents', last_semantic_diags', w)
      BY <1>1, <1>5, <1>6, <1>10, <3>2 DEF IsPublishFor
    <3>4. \A j \in DOMAIN outbox' : j > k => ~ IsPublishFor(outbox'[j], w)
      <4> SUFFICES ASSUME NEW j \in DOMAIN outbox', j > k
                   PROVE  ~ IsPublishFor(outbox'[j], w)
        OBVIOUS
      <4>1. j - (L + 1) \in 1 .. n /\ j = L + 1 + (j - (L + 1)) /\ j - (L + 1) # i
        BY <1>1, <1>5, <1>10, <3>2
      <4>2. s[j - (L + 1)] # w
        BY <3>2, <4>1
      <4>3. outbox'[j].uri = s[j - (L + 1)]
        BY <1>6, <1>10, <4>1
      <4> QED
        BY <4>2, <4>3 DEF IsPublishFor
    <3> HIDE DEF k
    <3> QED
      BY <3>3, <3>4 DEF WillShow
  <2> QED
    BY <2>1, <2>2
<1>12. ASSUME NEW w \in Uri \ S, NEW ds, WillShow(w, ds)
       PROVE  WillShow(w, ds)'
  <2>1. \A j \in DOMAIN outbox' : j \notin 1 .. L => ~ IsPublishFor(outbox'[j], w)
    <3> SUFFICES ASSUME NEW j \in DOMAIN outbox', j \notin 1 .. L
                 PROVE  ~ IsPublishFor(outbox'[j], w)
      OBVIOUS
    <3>1. CASE j = L + 1
      BY <1>6, <1>10, <1>12, <3>1 DEF IsPublishFor
    <3>2. CASE j # L + 1
      <4>1. j - (L + 1) \in 1 .. n /\ j = L + 1 + (j - (L + 1))
        BY <1>1, <1>5, <1>10, <3>2
      <4>2. outbox'[j].uri \in others
        BY <1>4, <1>6, <1>10, <4>1
      <4> QED
        BY <1>12, <4>2 DEF IsPublishFor, others
    <3> QED
      BY <3>1, <3>2
  <2>2. DOMAIN outbox = 1 .. L /\ 1 .. L \subseteq DOMAIN outbox'
    BY <1>1, <1>5, <1>10 DEF L
  <2>3. CASE \A i \in DOMAIN outbox : ~ IsPublishFor(outbox[i], w)
    <3>1. shown[w] = ds
      BY <1>12, <2>3 DEF WillShow
    <3>2. \A j \in DOMAIN outbox' : ~ IsPublishFor(outbox'[j], w)
      BY <1>10, <2>1, <2>2, <2>3
    <3> QED
      BY <3>1, <3>2 DEF WillShow
  <2>4. CASE \E i \in DOMAIN outbox :
               /\ IsPublishFor(outbox[i], w)
               /\ outbox[i].diags = ds
               /\ \A j \in DOMAIN outbox : j > i => ~ IsPublishFor(outbox[j], w)
    <3>1. PICK i \in DOMAIN outbox :
               /\ IsPublishFor(outbox[i], w)
               /\ outbox[i].diags = ds
               /\ \A j \in DOMAIN outbox : j > i => ~ IsPublishFor(outbox[j], w)
      BY <2>4
    <3>2. i \in DOMAIN outbox' /\ outbox'[i] = outbox[i]
      BY <1>10, <2>2, <3>1
    <3>3. \A j \in DOMAIN outbox' : j > i => ~ IsPublishFor(outbox'[j], w)
      BY <1>10, <2>1, <2>2, <3>1
    <3> QED
      BY <3>1, <3>2, <3>3 DEF WillShow
  <2> QED
    BY <1>12, <2>3, <2>4 DEF WillShow
<1> QED
  BY <1>11, <1>12

\* The part of the two properties that a handler of a text establishes.
LEMMA AnalyzeShows ==
    ASSUME TypeOK, inbox # <<>>, NEW u \in Uri, NEW t \in Text,
           Head(inbox).version \in Nat, analyze_and_publish(u, t),
           UNCHANGED shown, NothingShownForClosed
    PROVE  /\ ViewIsCurrent'
           /\ NothingShownForClosed'
<1> DEFINE S == DOMAIN documents \cup {u}
<1>1. /\ file_id_for({u})
      /\ order' \in OrdersAfterInsert(documents, {u})
      /\ run_cross_file_analysis(WithDoc(u, t))
      /\ PublishAll(u)
  BY DEF analyze_and_publish
<1>2. S \in SUBSET Uri /\ WithDoc(u, t) \in Docs(S)
  BY <1>1, WithDocType
<1>3. DOMAIN documents' = S /\ documents' \in Docs(S)
  BY <1>1, <1>2, RunType
<1>4. order' \in Orders
  BY <1>1, OrderType
<1>5. /\ \A w \in S : WillShow(w, FileDiags(documents, last_semantic_diags, w))'
      /\ \A w \in Uri \ S : \A ds : WillShow(w, ds) => WillShow(w, ds)'
  BY <1>1, <1>2, <1>3, <1>4, PublishAllShows
<1>6. ViewIsCurrent'
  BY <1>3, <1>5 DEF ViewIsCurrent
<1>7. NothingShownForClosed'
  BY <1>3, <1>5 DEF NothingShownForClosed
<1> QED
  BY <1>6, <1>7

\* A step that moves neither documents nor messages to the editor.
LEMMA QuietShows ==
    ASSUME UNCHANGED <<documents, last_semantic_diags, outbox, shown, settled>>,
           ViewIsCurrent, NothingShownForClosed
    PROVE  /\ ViewIsCurrent'
           /\ NothingShownForClosed'
<1>1. \A u, ds : WillShow(u, ds) <=> WillShow(u, ds)'
  BY DEF WillShow
<1> QED
  BY <1>1 DEF ViewIsCurrent, NothingShownForClosed

LEMMA ShowsNext ==
    TypeOK /\ ViewIsCurrent /\ NothingShownForClosed /\ [Next]_vars
      => ViewIsCurrent' /\ NothingShownForClosed'
<1> SUFFICES ASSUME TypeOK, ViewIsCurrent, NothingShownForClosed, [Next]_vars
             PROVE  ViewIsCurrent' /\ NothingShownForClosed'
  OBVIOUS
<1>1. CASE Initialize
  <2>1. ViewIsCurrent'
    BY <1>1 DEF Initialize, ViewIsCurrent
  <2>2. [type |-> "initialized"] \in ToClient
    BY DEF ToClient
  <2>3. \A w, ds : WillShow(w, ds) => WillShow(w, ds)'
    BY <1>1, <2>2, AppendKeeps DEF Initialize, clientVars, IsPublishFor
  <2>4. DOMAIN documents \subseteq DOMAIN documents'
    BY <1>1, IndexedDocsType, RunType DEF Initialize
  <2>5. NothingShownForClosed'
    BY <2>3, <2>4 DEF NothingShownForClosed
  <2> QED
    BY <2>1, <2>5
<1>2. CASE DidOpen
  <2>1. /\ Head(inbox).uri \in Uri
        /\ Head(inbox).text \in Text
        /\ Head(inbox).version \in Nat
    BY <1>2, InboxType DEF DidOpen
  <2> QED
    BY <1>2, <2>1, AnalyzeShows DEF DidOpen, clientVars
<1>3. CASE DidChange
  <2>1. /\ Head(inbox).uri \in Uri
        /\ LastChange(Head(inbox)).text \in Text
        /\ Head(inbox).version \in Nat
    BY <1>3, InboxType, LastChangeType DEF DidChange
  <2> QED
    BY <1>3, <2>1, AnalyzeShows DEF DidChange, clientVars
<1>4. CASE DidClose
  <2>1. PICK u \in Uri : u = Head(inbox).uri
    BY <1>4, InboxType DEF DidClose
  <2> DEFINE m == PublishMsg(u, {}, NoVersion)
  <2>2. m \in ToClient /\ m.type = "publish" /\ m.uri = u /\ m.diags = {}
    BY <2>1, PublishType DEF PublishMsg
  <2>3. outbox' = Append(outbox, m) /\ UNCHANGED shown /\ settled' = FALSE
    BY <1>4, <2>1 DEF DidClose, clientVars
  <2>4. DOMAIN documents' = DOMAIN documents \ {u}
    BY <1>4, <2>1, WithoutDocType, RunType DEF DidClose
  <2> HIDE DEF m
  <2>5. WillShow(u, {})'
    BY <2>2, <2>3, AppendShows DEF IsPublishFor
  <2>6. \A w \in Uri \ {u} : WillShow(w, {}) => WillShow(w, {})'
    BY <2>2, <2>3, AppendKeeps DEF IsPublishFor
  <2>7. NothingShownForClosed'
    <3> SUFFICES ASSUME NEW w \in Uri \ DOMAIN documents' PROVE WillShow(w, {})'
      BY DEF NothingShownForClosed
    <3>1. CASE w = u
      BY <2>5, <3>1
    <3>2. CASE w # u
      BY <2>4, <2>6, <3>2 DEF NothingShownForClosed
    <3> QED
      BY <3>1, <3>2
  <2> QED
    BY <2>3, <2>7 DEF ViewIsCurrent
<1>5. CASE Definition
  <2>1. outbox' \in Seq(ToClient)
    BY <1>5, DefinitionType DEF TypeOK
  <2>2. PICK m : outbox' = Append(outbox, m) /\ m.type # "publish"
    <3>1. [type |-> "noLocation", uri |-> Head(inbox).uri].type # "publish"
      OBVIOUS
    <3>2. \A d : Location(Head(inbox).uri, d).type # "publish"
      BY DEF Location
    <3> QED
      BY <1>5, <3>1, <3>2 DEF Definition
  <2>3. m \in ToClient
    <3>1. outbox \in Seq(ToClient)
      BY DEF TypeOK
    <3>2. outbox'[Len(outbox) + 1] = m /\ Len(outbox) + 1 \in 1 .. Len(outbox')
      BY <2>2, <3>1
    <3> QED
      BY <2>1, <3>2, ElementOfSeq
  <2>4. UNCHANGED <<documents, last_semantic_diags, shown, settled>>
    BY <1>5 DEF Definition, serverVars, clientVars
  <2>5. \A w, ds : WillShow(w, ds) => WillShow(w, ds)'
    BY <2>2, <2>3, <2>4, AppendKeeps DEF IsPublishFor
  <2> QED
    BY <2>4, <2>5 DEF ViewIsCurrent, NothingShownForClosed
<1>6. CASE ClientReceive
  <2>1. UNCHANGED <<documents, last_semantic_diags, settled>>
    BY <1>6 DEF ClientReceive, serverVars
  <2>2. \A w \in Uri : \A ds : WillShow(w, ds) => WillShow(w, ds)'
    BY <1>6, ReceiveKeeps
  <2>3. DOMAIN documents \subseteq Uri
    BY DEF TypeOK
  <2> QED
    BY <2>1, <2>2, <2>3 DEF ViewIsCurrent, NothingShownForClosed
<1>7. CASE UNCHANGED <<documents, last_semantic_diags, outbox, shown, settled>>
  BY <1>7, QuietShows
<1> QED
  BY <1>1, <1>2, <1>3, <1>4, <1>5, <1>6, <1>7
     DEF Next, Server, Ignored, User, ClientOpen, ClientChange,
         ClientRangeChange, ClientClose, ClientAsk, vars, serverVars, clientVars

LEMMA ShowsInit == Init => ViewIsCurrent /\ NothingShownForClosed
<1> SUFFICES ASSUME Init PROVE ViewIsCurrent /\ NothingShownForClosed
  OBVIOUS
<1>1. DOMAIN documents = {} /\ DOMAIN outbox = {} /\ \A u \in Uri : shown[u] = {}
  BY DEF Init
<1> QED
  BY <1>1 DEF ViewIsCurrent, NothingShownForClosed, WillShow

\* The display converges to the present analysis for every document, unless
\* one was closed or indexed since the last edit, and to nothing for the
\* closed ones.
THEOREM ViewCorrect == Spec => [](ViewIsCurrent /\ NothingShownForClosed)
<1> QED
  BY ShowsInit, ShowsNext, TypeCorrect, PTL DEF Spec

\* Nothing is shown, or about to be shown, for a document that is closed
\* (did_close clears it and no later publication brings it back).
THEOREM ClosedCorrect == Spec => []NothingShownForClosed
<1> QED
  BY ViewCorrect, PTL

-----------------------------------------------------------------------------
(* Which text the language server works on, and which text what it         *)
(* publishes is about: what is known of the messages on their way.         *)

\* Messages that give a document a text, or take it away.
CarriesText(m) == m.type = "didOpen" \/ (m.type = "didChange" /\ Accepted(m))
TextOf(m) == IF m.type = "didOpen" THEN m.text ELSE LastChange(m).text
Touches(m, u) == (CarriesText(m) \/ m.type = "didClose") /\ m.uri = u

\* A text on its way is one the buffer has had, and the text of the present
\* version is the present text.
KnownText(m) ==
    CarriesText(m) =>
        /\ TextOf(m) \in had[m.uri]
        /\ m.version <= ver[m.uri]
        /\ m.version = ver[m.uri] /\ buf[m.uri] # NoText => TextOf(m) = buf[m.uri]

InboxKnown == \A i \in DOMAIN inbox : KnownText(inbox[i])

\* No publication is ahead of its buffer.
KnownVersion(m) ==
    m.type = "publish" => m.version = NoVersion \/ m.version <= ver[m.uri]

OutboxKnown == \A i \in DOMAIN outbox : KnownVersion(outbox[i])

\* Once the server has read what is under way it has the text of the buffer.
HoldsLast(u) ==
    /\ \A i \in DOMAIN inbox : ~ Touches(inbox[i], u)
    /\ u \in DOMAIN documents
    /\ documents[u].text = buf[u]

Underway(u, i) ==
    /\ Touches(inbox[i], u)
    /\ CarriesText(inbox[i])
    /\ TextOf(inbox[i]) = buf[u]
    /\ \A j \in DOMAIN inbox : j > i => ~ Touches(inbox[j], u)

WillHold(u) == HoldsLast(u) \/ \E i \in DOMAIN inbox : Underway(u, i)

Synced == \A u \in Uri \ ranged : buf[u] # NoText => WillHold(u)

\* VersionTagExact, of one message.
TagExact(m) ==
    /\ m.type = "publish"
    /\ buf[m.uri] # NoText
    /\ m.version = ver[m.uri]
    => m.diags \cap ({"parse"} \X Text) = ParseDiags(buf[m.uri])

TextsInv == InboxKnown /\ OutboxKnown /\ Synced /\ NoSilentCorruption /\ VersionTagExact

-----------------------------------------------------------------------------
(* The pipes.                                                              *)

LEMMA InboxPop ==
    ASSUME TypeOK, inbox # <<>>, inbox' = Tail(inbox)
    PROVE  /\ Len(inbox) \in Nat /\ Len(inbox) >= 1
           /\ DOMAIN inbox = 1 .. Len(inbox)
           /\ DOMAIN inbox' = 1 .. (Len(inbox) - 1)
           /\ inbox[1] = Head(inbox)
           /\ \A i \in 1 .. (Len(inbox) - 1) : inbox'[i] = inbox[i + 1]
<1>1. inbox \in Seq(ToServer)
  BY DEF TypeOK
<1> QED
  BY <1>1, HeadTailProperties, EmptySeq, LenProperties

LEMMA InboxPush ==
    ASSUME TypeOK, NEW m, Send(m)
    PROVE  /\ Len(inbox) \in Nat
           /\ DOMAIN inbox = 1 .. Len(inbox)
           /\ DOMAIN inbox' = 1 .. (Len(inbox) + 1)
           /\ inbox'[Len(inbox) + 1] = m
           /\ \A i \in 1 .. Len(inbox) : inbox'[i] = inbox[i]
<1>1. inbox \in Seq(ToServer)
  BY DEF TypeOK
<1> QED
  BY <1>1 DEF Send

\* The messages a round of publications adds to those under way.
LEMMA PublishAllAdds ==
    ASSUME TypeOK, NEW u, NEW S \in SUBSET Uri, DOMAIN documents' = S, u \in S,
           PublishAll(u)
    PROVE  \A i \in DOMAIN outbox' :
              \/ \E j \in DOMAIN outbox : outbox'[i] = outbox[j]
              \/ outbox'[i] = PublishMsg(u,
                    FileDiags(documents', last_semantic_diags', u), Head(inbox).version)
              \/ \E w \in S : outbox'[i] = PublishMsg(w,
                    FileDiags(documents', last_semantic_diags', w), NoVersion)
<1> DEFINE others == S \ {u}
           msg(w, v) == PublishMsg(w, FileDiags(documents', last_semantic_diags', w), v)
           n == Cardinality(others)
           L == Len(outbox)
<1>1. IsFiniteSet(others) /\ n \in Nat
  BY UriAssumption, FS_Subset, FS_CardinalityType, others \subseteq Uri
<1>2. PICK s \in InOrder(others) :
        outbox' = outbox \o <<msg(u, Head(inbox).version)>>
                    \o [i \in 1 .. Len(s) |-> msg(s[i], NoVersion)]
  BY DEF PublishAll
<1>3. s \in [1 .. n -> others]
  BY <1>2 DEF InOrder
<1> HIDE DEF n
<1>4. Len(s) = n /\ \A i \in 1 .. n : s[i] \in others
  BY <1>1, <1>3
<1> DEFINE Any == {outbox[i] : i \in 1 .. L} \cup {msg(u, Head(inbox).version)}
                    \cup {msg(w, NoVersion) : w \in S}
           first == <<msg(u, Head(inbox).version)>>
           rest == [i \in 1 .. n |-> msg(s[i], NoVersion)]
<1>5. L \in Nat /\ DOMAIN outbox = 1 .. L /\ outbox \in Seq(Any)
  <2>1. outbox \in Seq(ToClient)
    BY DEF TypeOK
  <2>2. L \in Nat /\ DOMAIN outbox = 1 .. L /\ outbox = [i \in 1 .. L |-> outbox[i]]
    BY <2>1
  <2> HIDE DEF L, msg
  <2>3. [i \in 1 .. L |-> outbox[i]] \in Seq(Any)
    BY <2>2
  <2> QED
    BY <2>2, <2>3
<1> HIDE DEF msg, L
<1>6. first \in Seq(Any)
  OBVIOUS
<1>7. rest \in Seq(Any)
  BY <1>1, <1>4 DEF others
<1> HIDE DEF Any, first, rest
<1>8. outbox' \in Seq(Any)
  <2>1. outbox \o first \in Seq(Any)
    BY <1>5, <1>6, ConcatProperties
  <2>2. (outbox \o first) \o rest \in Seq(Any)
    BY <1>7, <2>1, ConcatProperties
  <2> QED
    BY <1>2, <1>4, <2>2 DEF first, rest, msg
<1>9. \A i \in DOMAIN outbox' : outbox'[i] \in Any
  BY <1>8, ElementOfSeq, LenProperties
<1> QED
  BY <1>5, <1>9 DEF Any, msg

-----------------------------------------------------------------------------
(* The texts on their way to the server.                                   *)

\* A handler takes its message and leaves the rest; the editor's buffers do
\* not change under it.
LEMMA PopKnown ==
    ASSUME TypeOK, InboxKnown, inbox # <<>>, inbox' = Tail(inbox),
           UNCHANGED <<buf, ver, had>>
    PROVE  InboxKnown'
<1> SUFFICES ASSUME NEW i \in DOMAIN inbox' PROVE KnownText(inbox[i])'
  BY DEF InboxKnown
<1>1. i + 1 \in DOMAIN inbox /\ inbox'[i] = inbox[i + 1]
  BY InboxPop
<1> QED
  BY <1>1 DEF InboxKnown, KnownText, CarriesText, TextOf, Accepted, LastChange

\* The rest of the inbox keeps its promise to u when the message taken is not
\* about u and the handler leaves u's document its text.
LEMMA PopKeepsPromise ==
    ASSUME TypeOK, inbox # <<>>, inbox' = Tail(inbox), UNCHANGED buf,
           NEW u, ~ Touches(Head(inbox), u), WillHold(u),
           u \in DOMAIN documents =>
              u \in DOMAIN documents' /\ documents'[u].text = documents[u].text
    PROVE  WillHold(u)'
<1>1. CASE HoldsLast(u)
  <2>1. \A i \in DOMAIN inbox' : ~ Touches(inbox'[i], u)
    BY <1>1, InboxPop DEF HoldsLast
  <2> QED
    BY <1>1, <2>1 DEF HoldsLast, WillHold, Touches, CarriesText, Accepted, LastChange
<1>2. ASSUME NEW i \in DOMAIN inbox, Underway(u, i) PROVE WillHold(u)'
  <2>1. i # 1
    BY <1>2, InboxPop DEF Underway
  <2>2. i - 1 \in DOMAIN inbox' /\ inbox'[i - 1] = inbox[i]
    BY <2>1, InboxPop
  <2>3. \A j \in DOMAIN inbox' : j > i - 1 => ~ Touches(inbox'[j], u)
    <3> SUFFICES ASSUME NEW j \in DOMAIN inbox', j > i - 1
                 PROVE  ~ Touches(inbox'[j], u)
      OBVIOUS
    <3>1. j + 1 \in DOMAIN inbox /\ j + 1 > i /\ inbox'[j] = inbox[j + 1]
      BY InboxPop
    <3> QED
      BY <1>2, <3>1 DEF Underway
  <2>4. Underway(u, i - 1)'
    BY <1>2, <2>2, <2>3
       DEF Underway, Touches, CarriesText, Accepted, TextOf, LastChange
  <2> QED
    BY <2>2, <2>4 DEF WillHold
<1> QED
  BY <1>1, <1>2 DEF WillHold

\* A handler that takes in the text of a message keeps the promise: either that
\* was the last one about u, or a later one holds the text of the buffer.
LEMMA PopTakesText ==
    ASSUME TypeOK, inbox # <<>>, inbox' = Tail(inbox), UNCHANGED buf,
           NEW u, Touches(Head(inbox), u), WillHold(u),
           CarriesText(Head(inbox)) =>
              u \in DOMAIN documents' /\ documents'[u].text = TextOf(Head(inbox))
    PROVE  WillHold(u)'
<1>1. PICK i \in DOMAIN inbox : Underway(u, i)
  BY InboxPop DEF WillHold, HoldsLast
<1>2. CASE i = 1
  <2>1. /\ CarriesText(Head(inbox))
        /\ TextOf(Head(inbox)) = buf[u]
    BY <1>1, <1>2, InboxPop DEF Underway
  <2>2. \A j \in DOMAIN inbox' : ~ Touches(inbox'[j], u)
    <3> SUFFICES ASSUME NEW j \in DOMAIN inbox' PROVE ~ Touches(inbox'[j], u)
      OBVIOUS
    <3>1. j + 1 \in DOMAIN inbox /\ j + 1 > i /\ inbox'[j] = inbox[j + 1]
      BY <1>2, InboxPop
    <3> QED
      BY <1>1, <3>1 DEF Underway
  <2> QED
    BY <2>1, <2>2 DEF WillHold, HoldsLast, Touches, CarriesText, Accepted, LastChange
<1>3. CASE i # 1
  <2>2. i - 1 \in DOMAIN inbox' /\ inbox'[i - 1] = inbox[i]
    BY <1>3, InboxPop
  <2>3. \A j \in DOMAIN inbox' : j > i - 1 => ~ Touches(inbox'[j], u)
    <3> SUFFICES ASSUME NEW j \in DOMAIN inbox', j > i - 1
                 PROVE  ~ Touches(inbox'[j], u)
      OBVIOUS
    <3>1. j + 1 \in DOMAIN inbox /\ j + 1 > i /\ inbox'[j] = inbox[j + 1]
      BY InboxPop
    <3> QED
      BY <1>1, <3>1 DEF Underway
  <2>4. Underway(u, i - 1)'
    BY <1>1, <2>2, <2>3
       DEF Underway, Touches, CarriesText, Accepted, TextOf, LastChange
  <2> QED
    BY <2>2, <2>4 DEF WillHold
<1> QED
  BY <1>2, <1>3

\* A message sent about another document, or about the text of none, does not
\* touch the promise; one with the new text of the buffer renews it.
LEMMA PushKeepsPromise ==
    ASSUME TypeOK, NEW m, Send(m), UNCHANGED documents, NEW u,
           buf'[u] = buf[u], ~ Touches(m, u), WillHold(u)
    PROVE  WillHold(u)'
<1> DEFINE n == Len(inbox)
<1>1. /\ n \in Nat /\ DOMAIN inbox = 1 .. n /\ DOMAIN inbox' = 1 .. (n + 1)
      /\ inbox'[n + 1] = m
      /\ \A i \in 1 .. n : inbox'[i] = inbox[i]
  BY InboxPush
<1> HIDE DEF n
<1>2. CASE HoldsLast(u)
  <2>1. \A i \in DOMAIN inbox' : ~ Touches(inbox'[i], u)
    BY <1>1, <1>2 DEF HoldsLast
  <2> QED
    BY <1>2, <2>1 DEF HoldsLast, WillHold, Touches, CarriesText, Accepted, LastChange
<1>3. ASSUME NEW i \in DOMAIN inbox, Underway(u, i) PROVE WillHold(u)'
  <2>1. \A j \in DOMAIN inbox' : j > i => ~ Touches(inbox'[j], u)
    BY <1>1, <1>3 DEF Underway
  <2>2. i \in DOMAIN inbox' /\ inbox'[i] = inbox[i]
    BY <1>1
  <2>3. Underway(u, i)'
    BY <1>3, <2>1, <2>2
       DEF Underway, Touches, CarriesText, Accepted, TextOf, LastChange
  <2> QED
    BY <2>2, <2>3 DEF WillHold
<1> QED
  BY <1>2, <1>3 DEF WillHold

LEMMA PushRenewsPromise ==
    ASSUME TypeOK, NEW m, Send(m), NEW u, Touches(m, u), CarriesText(m),
           TextOf(m) = buf'[u]
    PROVE  WillHold(u)'
<1>1. PICK n \in Nat : DOMAIN inbox' = 1 .. (n + 1) /\ inbox'[n + 1] = m
  BY InboxPush
<1>2. Underway(u, n + 1)'
  BY <1>1 DEF Underway, Touches, CarriesText, Accepted, TextOf, LastChange
<1> QED
  BY <1>1, <1>2 DEF WillHold

-----------------------------------------------------------------------------
(* What the user does to one buffer, and says about it in one message.     *)

\* The buffer gets a text the message carries.
SaysText(u, m) ==
    /\ Touches(m, u) /\ CarriesText(m)
    /\ ver'[u] = ver[u] + 1
    /\ m.version = ver'[u]
    /\ TextOf(m) = buf'[u]
    /\ TextOf(m) \in had'[u]

\* It changes by a range, is closed, or stays as it is.
SaysRange(u, m) == ~ CarriesText(m) /\ ver'[u] = ver[u] + 1 /\ u \in ranged'
SaysClose(u, m) == ~ CarriesText(m) /\ ver'[u] = ver[u] /\ buf'[u] = NoText
SaysNothing(u, m) ==
    /\ ~ CarriesText(m) /\ ~ Touches(m, u)
    /\ UNCHANGED <<buf, ver, ranged>>

UserStep(u, m) ==
    /\ Send(m)
    /\ UNCHANGED <<documents, outbox>>
    /\ \A w \in Uri : had[w] \subseteq had'[w]
    /\ \A w \in Uri \ {u} : /\ buf'[w] = buf[w]
                            /\ ver'[w] = ver[w]
                            /\ ~ Touches(m, w)
                            /\ w \in ranged => w \in ranged'
    /\ SaysText(u, m) \/ SaysRange(u, m) \/ SaysClose(u, m) \/ SaysNothing(u, m)

LEMMA UserSays == TypeOK /\ User => \E u \in Uri : \E m : UserStep(u, m)
<1> SUFFICES ASSUME TypeOK, NEW u \in Uri,
                    \/ \E t \in Text : ClientOpen(u, t)
                    \/ \E t \in Text : ClientChange(u, <<t>>)
                    \/ \E t1, t2 \in Text : ClientChange(u, <<t1, t2>>)
                    \/ \E fragment, t \in Text : ClientRangeChange(u, fragment, t)
                    \/ ClientClose(u)
                    \/ \E type \in {"didSave", "definition"} : ClientAsk(u, type)
             PROVE  \E m : UserStep(u, m)
  BY DEF User
<1>0. /\ ver \in [Uri -> Nat] /\ had \in [Uri -> SUBSET Text]
      /\ buf \in [Uri -> Text \cup {NoText}]
  BY DEF TypeOK
<1>1. ASSUME NEW t \in Text, ClientOpen(u, t) PROVE \E m : UserStep(u, m)
  <2> DEFINE m == [type |-> "didOpen", uri |-> u, text |-> t, version |-> ver[u] + 1]
  <2>1. Touches(m, u) /\ CarriesText(m) /\ TextOf(m) = t
    BY DEF Touches, CarriesText, TextOf
  <2>2. \A w \in Uri \ {u} : ~ Touches(m, w)
    BY DEF Touches
  <2>3. SaysText(u, m)
    BY <1>0, <1>1, <2>1 DEF ClientOpen, SaysText
  <2>4. Send(m) /\ UNCHANGED <<documents, outbox>>
    BY <1>1 DEF ClientOpen, serverVars
  <2> HIDE DEF m
  <2>5. UserStep(u, m)
    BY <1>0, <1>1, <2>2, <2>3, <2>4 DEF ClientOpen, UserStep
  <2> QED
    BY <2>5
<1>2. ASSUME NEW ts \in Seq(Text), ts # <<>>, ClientChange(u, ts)
      PROVE  \E m : UserStep(u, m)
  <2> DEFINE cs == [i \in DOMAIN ts |-> [range |-> FALSE, text |-> ts[i]]]
             m == [type |-> "didChange", uri |-> u, version |-> ver[u] + 1,
                   changes |-> cs]
  <2>1. Len(ts) \in DOMAIN ts /\ DOMAIN ts = 1 .. Len(ts) /\ Len(ts) \in Nat
    BY <1>2
  <2>2. Len(cs) = Len(ts) /\ cs # <<>> /\ cs[Len(ts)] = [range |-> FALSE, text |-> ts[Len(ts)]]
    BY <2>1
  <2> HIDE DEF cs
  <2>3. m.type = "didChange" /\ m.uri = u /\ m.changes = cs /\ m.version = ver[u] + 1
    OBVIOUS
  <2>4. Touches(m, u) /\ CarriesText(m) /\ TextOf(m) = ts[Len(ts)]
    BY <2>2, <2>3 DEF Touches, CarriesText, TextOf, Accepted, LastChange
  <2>5. \A w \in Uri \ {u} : ~ Touches(m, w)
    BY DEF Touches
  <2>6. SaysText(u, m)
    BY <1>0, <1>2, <2>1, <2>3, <2>4 DEF ClientChange, SaysText
  <2>7. Send(m) /\ UNCHANGED <<documents, outbox>>
    BY <1>2 DEF ClientChange, serverVars, cs
  <2> HIDE DEF m
  <2>8. UserStep(u, m)
    BY <1>0, <1>2, <2>5, <2>6, <2>7 DEF ClientChange, UserStep
  <2> QED
    BY <2>8
<1>3. ASSUME NEW fragment \in Text, NEW t \in Text, ClientRangeChange(u, fragment, t)
      PROVE  \E m : UserStep(u, m)
  <2> DEFINE cs == <<[range |-> TRUE, text |-> fragment]>>
             m == [type |-> "didChange", uri |-> u, version |-> ver[u] + 1,
                   changes |-> cs]
  <2>1. Len(cs) = 1 /\ cs[1].range = TRUE
    OBVIOUS
  <2> HIDE DEF cs
  <2>2. m.type = "didChange" /\ m.uri = u /\ m.changes = cs
    OBVIOUS
  <2>3. ~ CarriesText(m)
    BY <2>1, <2>2 DEF CarriesText, Accepted, LastChange
  <2>4. \A w \in Uri \ {u} : ~ Touches(m, w)
    BY DEF Touches
  <2>5. SaysRange(u, m)
    BY <1>0, <1>3, <2>3 DEF ClientRangeChange, SaysRange
  <2>6. Send(m) /\ UNCHANGED <<documents, outbox>>
    BY <1>3 DEF ClientRangeChange, serverVars, cs
  <2> HIDE DEF m
  <2>7. UserStep(u, m)
    BY <1>0, <1>3, <2>4, <2>5, <2>6 DEF ClientRangeChange, UserStep
  <2> QED
    BY <2>7
<1>4. ASSUME ClientClose(u) PROVE \E m : UserStep(u, m)
  <2> DEFINE m == [type |-> "didClose", uri |-> u]
  <2>1. ~ CarriesText(m) /\ \A w \in Uri \ {u} : ~ Touches(m, w)
    BY DEF CarriesText, Touches
  <2>2. SaysClose(u, m)
    BY <1>0, <1>4, <2>1 DEF ClientClose, SaysClose
  <2>3. Send(m) /\ UNCHANGED <<documents, outbox>>
    BY <1>4 DEF ClientClose, serverVars
  <2> HIDE DEF m
  <2>4. UserStep(u, m)
    BY <1>0, <1>4, <2>1, <2>2, <2>3 DEF ClientClose, UserStep
  <2> QED
    BY <2>4
<1>5. ASSUME NEW type \in {"didSave", "definition"}, ClientAsk(u, type)
      PROVE  \E m : UserStep(u, m)
  <2> DEFINE m == [type |-> type, uri |-> u]
  <2>1. ~ CarriesText(m) /\ \A w \in Uri : ~ Touches(m, w)
    BY DEF CarriesText, Touches
  <2>2. SaysNothing(u, m)
    BY <1>5, <2>1 DEF ClientAsk, SaysNothing, clientVars
  <2>3. Send(m) /\ UNCHANGED <<documents, outbox>>
    BY <1>5 DEF ClientAsk, serverVars
  <2> HIDE DEF m
  <2>4. UserStep(u, m)
    BY <1>0, <1>5, <2>1, <2>2, <2>3 DEF ClientAsk, UserStep, clientVars
  <2> QED
    BY <2>4
<1>6. ASSUME NEW t \in Text, ClientChange(u, <<t>>) PROVE \E m : UserStep(u, m)
  <2>1. <<t>> \in Seq(Text) /\ <<t>> # <<>>
    OBVIOUS
  <2> QED
    BY <1>2, <1>6, <2>1
<1>7. ASSUME NEW t1 \in Text, NEW t2 \in Text, ClientChange(u, <<t1, t2>>)
      PROVE  \E m : UserStep(u, m)
  <2>1. <<t1, t2>> \in Seq(Text) /\ <<t1, t2>> # <<>>
    OBVIOUS
  <2> QED
    BY <1>2, <1>7, <2>1
<1> QED
  BY <1>1, <1>3, <1>4, <1>5, <1>6, <1>7

-----------------------------------------------------------------------------
(* What a handler does with the message it takes.                          *)

\* The documents: a text is taken in, a closed document goes, the others keep
\* theirs, and what is new besides was read from disk.
TakesIn(m) == \A u \in Uri :
    /\ Touches(m, u) /\ CarriesText(m) =>
          u \in DOMAIN documents' /\ documents'[u].text = TextOf(m)
    /\ ~ Touches(m, u) /\ u \in DOMAIN documents =>
          u \in DOMAIN documents' /\ documents'[u].text = documents[u].text
    /\ Touches(m, u) /\ ~ CarriesText(m) => u \notin DOMAIN documents'
    /\ ~ Touches(m, u) /\ u \in DOMAIN documents' \ DOMAIN documents =>
          documents'[u].text = Disk[u]

\* The publications: one for the text taken in, with the version of the
\* message; the others carry no version.
Answers(m) == \A i \in DOMAIN outbox' :
    \/ \E j \in DOMAIN outbox : outbox'[i] = outbox[j]
    \/ outbox'[i].type # "publish"
    \/ outbox'[i].type = "publish" /\ outbox'[i].version = NoVersion
    \/ /\ CarriesText(m)
       /\ outbox'[i] = PublishMsg(m.uri,
             FileDiags(documents', last_semantic_diags', m.uri), m.version)

ServerStep ==
    /\ inbox # <<>>
    /\ inbox' = Tail(inbox)
    /\ UNCHANGED clientVars
    /\ TakesIn(Head(inbox))
    /\ Answers(Head(inbox))

LEMMA AppendAnswers ==
    ASSUME TypeOK, NEW m, NEW reply, outbox' = Append(outbox, reply),
           reply.type # "publish" \/ (reply.type = "publish" /\ reply.version = NoVersion)
    PROVE  Answers(m)
<1>1. outbox \in Seq(ToClient)
  BY DEF TypeOK
<1>2. /\ Len(outbox) \in Nat
      /\ DOMAIN outbox = 1 .. Len(outbox)
      /\ DOMAIN outbox' = 1 .. (Len(outbox) + 1)
      /\ outbox'[Len(outbox) + 1] = reply
      /\ \A i \in 1 .. Len(outbox) : outbox'[i] = outbox[i]
  BY <1>1
<1>3. ASSUME NEW i \in DOMAIN outbox'
      PROVE  (\E j \in DOMAIN outbox : outbox'[i] = outbox[j]) \/ outbox'[i] = reply
  BY <1>2
<1> QED
  BY <1>3 DEF Answers

LEMMA AnalyzeDoes ==
    ASSUME TypeOK, inbox # <<>>, NEW u \in Uri, NEW t \in Text,
           analyze_and_publish(u, t), inbox' = Tail(inbox), UNCHANGED clientVars,
           Touches(Head(inbox), u), CarriesText(Head(inbox)), TextOf(Head(inbox)) = t
    PROVE  ServerStep
<1> DEFINE S == DOMAIN documents \cup {u}
<1>1. /\ file_id_for({u})
      /\ run_cross_file_analysis(WithDoc(u, t))
      /\ PublishAll(u)
  BY DEF analyze_and_publish
<1>2. S \in SUBSET Uri /\ WithDoc(u, t) \in Docs(S)
  BY <1>1, WithDocType
<1>3. DOMAIN documents' = S /\ documents' = Analysed(WithDoc(u, t))
  BY <1>1, <1>2, RunType
<1>4. \A w \in S : documents'[w].text = WithDoc(u, t)[w].text
  BY <1>2, <1>3, AnalysedType
<1>5. Head(inbox).uri = u /\ \A w : Touches(Head(inbox), w) <=> w = u
  BY DEF Touches
<1>6. TakesIn(Head(inbox))
  <2>1. WithDoc(u, t)[u].text = t
          /\ \A w \in DOMAIN documents \ {u} : WithDoc(u, t)[w] = documents[w]
    BY DEF WithDoc
  <2> QED
    BY <1>3, <1>4, <1>5, <2>1 DEF TakesIn
<1>7. Answers(Head(inbox))
  <2>1. \A i \in DOMAIN outbox' :
              \/ \E j \in DOMAIN outbox : outbox'[i] = outbox[j]
              \/ outbox'[i] = PublishMsg(u,
                    FileDiags(documents', last_semantic_diags', u), Head(inbox).version)
              \/ \E w \in S : outbox'[i] = PublishMsg(w,
                    FileDiags(documents', last_semantic_diags', w), NoVersion)
    BY <1>1, <1>2, <1>3, PublishAllAdds
  <2>2. \A w, ds : PublishMsg(w, ds, NoVersion).version = NoVersion
                   /\ PublishMsg(w, ds, NoVersion).type = "publish"
    BY DEF PublishMsg
  <2> QED
    BY <1>5, <2>1, <2>2 DEF Answers
<1> QED
  BY <1>6, <1>7 DEF ServerStep

LEMMA ServerDoes == TypeOK /\ Server => ServerStep
<1> SUFFICES ASSUME TypeOK, Server PROVE ServerStep
  OBVIOUS
<1> DEFINE m == Head(inbox)
<1>1. CASE Initialize
  <2> DEFINE S == DOMAIN documents \cup Indexed
  <2>1. ~ CarriesText(m) /\ \A u : ~ Touches(m, u)
    BY <1>1 DEF Initialize, CarriesText, Touches
  <2>2. S \in SUBSET Uri /\ IndexedDocs \in Docs(S)
    BY <1>1, IndexedDocsType DEF Initialize
  <2>3. DOMAIN documents' = S /\ documents' = Analysed(IndexedDocs)
    BY <1>1, <2>2, RunType DEF Initialize
  <2>4. \A u \in S : documents'[u].text = IndexedDocs[u].text
    BY <2>2, <2>3, AnalysedType
  <2>5. /\ \A u \in DOMAIN documents : IndexedDocs[u] = documents[u]
        /\ \A u \in S \ DOMAIN documents : IndexedDocs[u].text = Disk[u]
    BY DEF IndexedDocs, Indexed
  <2>6. TakesIn(m)
    BY <2>1, <2>3, <2>4, <2>5 DEF TakesIn
  <2>7. Answers(m)
    <3>1. [type |-> "initialized"].type # "publish"
      OBVIOUS
    <3> QED
      BY <1>1, <3>1, AppendAnswers DEF Initialize
  <2> QED
    BY <1>1, <2>6, <2>7 DEF Initialize, ServerStep
<1>2. CASE DidOpen
  <2>1. m.uri \in Uri /\ m.text \in Text
    BY <1>2, InboxType DEF DidOpen
  <2>2. Touches(m, m.uri) /\ CarriesText(m) /\ TextOf(m) = m.text
    BY <1>2 DEF DidOpen, Touches, CarriesText, TextOf
  <2> QED
    BY <1>2, <2>1, <2>2, AnalyzeDoes DEF DidOpen
<1>3. CASE DidChange
  <2>1. m.uri \in Uri /\ LastChange(m).text \in Text
    BY <1>3, InboxType, LastChangeType DEF DidChange
  <2>2. Touches(m, m.uri) /\ CarriesText(m) /\ TextOf(m) = LastChange(m).text
    BY <1>3 DEF DidChange, Touches, CarriesText, TextOf
  <2> QED
    BY <1>3, <2>1, <2>2, AnalyzeDoes DEF DidChange
<1>4. CASE Ignored
  <2>1. \A u : ~ Touches(m, u)
    BY <1>4 DEF Ignored, CarriesText, Touches
  <2>2. TakesIn(m)
    BY <1>4, <2>1 DEF Ignored, serverVars, TakesIn
  <2>3. Answers(m)
    BY <1>4 DEF Ignored, Answers
  <2> QED
    BY <1>4, <2>2, <2>3 DEF Ignored, ServerStep
<1>5. CASE DidClose
  <2> DEFINE u == m.uri
             S == DOMAIN documents \ {u}
  <2>1. u \in Uri
    BY <1>5, InboxType DEF DidClose
  <2>2. ~ CarriesText(m) /\ \A w : Touches(m, w) <=> w = u
    BY <1>5 DEF DidClose, CarriesText, Touches
  <2>3. S \in SUBSET Uri /\ [w \in S |-> documents[w]] \in Docs(S)
    BY <2>1, WithoutDocType
  <2>4. DOMAIN documents' = S /\ documents' = Analysed([w \in S |-> documents[w]])
    BY <1>5, <2>3, RunType DEF DidClose
  <2>5. \A w \in S : documents'[w].text = documents[w].text
    BY <2>3, <2>4, AnalysedType
  <2>6. TakesIn(m)
    BY <2>2, <2>4, <2>5 DEF TakesIn
  <2>7. Answers(m)
    <3> DEFINE reply == PublishMsg(u, {}, NoVersion)
    <3>1. reply.type = "publish" /\ reply.version = NoVersion
      BY DEF PublishMsg
    <3>2. outbox' = Append(outbox, reply)
      BY <1>5 DEF DidClose
    <3> HIDE DEF reply
    <3> QED
      BY <3>1, <3>2, AppendAnswers
  <2> QED
    BY <1>5, <2>6, <2>7 DEF DidClose, ServerStep
<1>6. CASE Definition
  <2>1. \A u : ~ Touches(m, u)
    BY <1>6 DEF Definition, CarriesText, Touches
  <2>2. TakesIn(m)
    BY <1>6, <2>1 DEF Definition, serverVars, TakesIn
  <2>3. PICK reply : outbox' = Append(outbox, reply) /\ reply.type # "publish"
    <3>1. [type |-> "noLocation", uri |-> m.uri].type # "publish"
      OBVIOUS
    <3>2. \A d : Location(m.uri, d).type # "publish"
      BY DEF Location
    <3> QED
      BY <1>6, <3>1, <3>2 DEF Definition
  <2>4. Answers(m)
    BY <2>3, AppendAnswers
  <2> QED
    BY <1>6, <2>2, <2>4 DEF Definition, ServerStep
<1> QED
  BY <1>1, <1>2, <1>3, <1>4, <1>5, <1>6 DEF Server

-----------------------------------------------------------------------------
(* The invariant.                                                          *)

\* A step is one of a handler, of the user, of the editor's reader, or none.
LEMMA StepsAre ==
    ASSUME TypeOK, [Next]_vars
    PROVE  \/ ServerStep
           \/ \E u \in Uri : \E m : UserStep(u, m)
           \/ ClientReceive
           \/ UNCHANGED vars
BY ServerDoes, UserSays DEF Next

\* A message that carries a text is about a document.
LEMMA InboxUri ==
    ASSUME TypeOK, NEW i \in DOMAIN inbox, CarriesText(inbox[i])
    PROVE  inbox[i].uri \in Uri /\ inbox[i].version \in Nat
<1>1. inbox[i] \in ToServer
  BY ElementOfSeq, LenProperties DEF TypeOK
<1> QED
  BY <1>1 DEF ToServer, CarriesText

LEMMA InboxKnownNext ==
    TypeOK /\ InboxKnown /\ [Next]_vars => InboxKnown'
<1> SUFFICES ASSUME TypeOK, InboxKnown, [Next]_vars PROVE InboxKnown'
  OBVIOUS
<1>1. CASE ServerStep
  BY <1>1, PopKnown DEF ServerStep, clientVars
<1>2. ASSUME NEW u \in Uri, NEW m, UserStep(u, m) PROVE InboxKnown'
  <2> SUFFICES ASSUME NEW i \in DOMAIN inbox' PROVE KnownText(inbox[i])'
    BY DEF InboxKnown
  <2>1. PICK n \in Nat :
          /\ DOMAIN inbox = 1 .. n /\ DOMAIN inbox' = 1 .. (n + 1)
          /\ inbox'[n + 1] = m
          /\ \A j \in 1 .. n : inbox'[j] = inbox[j]
    BY <1>2, InboxPush DEF UserStep
  <2>2. \A w \in Uri : ver[w] \in Nat
    BY DEF TypeOK
  <2>3. CASE i = n + 1
    <3>1. inbox'[i] = m
      BY <2>1, <2>3
    <3>2. ASSUME SaysText(u, m)
          PROVE  /\ m.uri = u /\ TextOf(m) \in had'[u] /\ m.version = ver'[u]
                 /\ TextOf(m) = buf'[u] /\ ver'[u] \in Nat
      BY <2>2, <3>2 DEF SaysText, Touches
    <3>3. CASE SaysText(u, m)
      BY <3>1, <3>2, <3>3 DEF KnownText, TextOf, LastChange
    <3>4. CASE ~ CarriesText(m)
      BY <3>1, <3>4 DEF KnownText, CarriesText, Accepted, LastChange
    <3> QED
      BY <1>2, <3>3, <3>4 DEF UserStep, SaysRange, SaysClose, SaysNothing
  <2>4. CASE i # n + 1
    <3>1. i \in DOMAIN inbox /\ inbox'[i] = inbox[i]
      BY <2>1, <2>4
    <3> DEFINE k == inbox[i]
    <3> SUFFICES ASSUME CarriesText(k)
                 PROVE  /\ TextOf(k) \in had'[k.uri]
                        /\ k.version <= ver'[k.uri]
                        /\ k.version = ver'[k.uri] /\ buf'[k.uri] # NoText
                             => TextOf(k) = buf'[k.uri]
      BY <3>1 DEF KnownText, TextOf, CarriesText, Accepted, LastChange
    <3>2. k.uri \in Uri /\ k.version \in Nat
      BY <3>1, InboxUri
    <3>3. /\ TextOf(k) \in had[k.uri]
          /\ k.version <= ver[k.uri]
          /\ k.version = ver[k.uri] /\ buf[k.uri] # NoText => TextOf(k) = buf[k.uri]
      BY <3>1 DEF InboxKnown, KnownText
    <3>4. TextOf(k) \in had'[k.uri]
      BY <1>2, <3>2, <3>3 DEF UserStep
    <3> HIDE DEF k
    <3>5. CASE k.uri # u
      BY <1>2, <3>2, <3>3, <3>4, <3>5 DEF UserStep
    <3>6. CASE k.uri = u
      <4>1. CASE ver'[u] = ver[u] + 1
        BY <2>2, <3>2, <3>3, <3>4, <3>6, <4>1
      <4>2. CASE ver'[u] = ver[u] /\ (buf'[u] = NoText \/ buf'[u] = buf[u])
        BY <3>3, <3>4, <3>6, <4>2
      <4> QED
        BY <1>2, <4>1, <4>2
           DEF UserStep, SaysText, SaysRange, SaysClose, SaysNothing
    <3> QED
      BY <3>5, <3>6
  <2> QED
    BY <2>3, <2>4
<1>3. CASE UNCHANGED <<inbox, buf, ver, had>>
  BY <1>3 DEF InboxKnown, KnownText, CarriesText, TextOf, Accepted, LastChange
<1> QED
  BY <1>1, <1>2, <1>3, StepsAre DEF ClientReceive, vars, clientVars

LEMMA SyncedNext == TypeOK /\ Synced /\ [Next]_vars => Synced'
<1> SUFFICES ASSUME TypeOK, Synced, [Next]_vars,
                    NEW w \in Uri \ ranged', buf'[w] # NoText
             PROVE  WillHold(w)'
  BY DEF Synced
<1>1. CASE ServerStep
  <2>1. WillHold(w)
    BY <1>1 DEF ServerStep, clientVars, Synced
  <2>2. CASE Touches(Head(inbox), w)
    BY <1>1, <2>1, <2>2, PopTakesText DEF ServerStep, TakesIn, clientVars
  <2>3. CASE ~ Touches(Head(inbox), w)
    BY <1>1, <2>1, <2>3, PopKeepsPromise DEF ServerStep, TakesIn, clientVars
  <2> QED
    BY <2>2, <2>3
<1>2. ASSUME NEW u \in Uri, NEW m, UserStep(u, m) PROVE WillHold(w)'
  <2>1. ASSUME buf'[w] = buf[w], ~ Touches(m, w), w \notin ranged
        PROVE  WillHold(w)'
    <3>1. WillHold(w)
      BY <2>1 DEF Synced
    <3> QED
      BY <1>2, <2>1, <3>1, PushKeepsPromise DEF UserStep
  <2>2. CASE w # u
    BY <1>2, <2>1, <2>2 DEF UserStep
  <2>3. CASE w = u /\ SaysText(u, m)
    BY <1>2, <2>3, PushRenewsPromise DEF UserStep, SaysText
  <2>4. CASE w = u /\ SaysNothing(u, m)
    BY <2>1, <2>4 DEF SaysNothing
  <2> QED
    BY <1>2, <2>2, <2>3, <2>4 DEF UserStep, SaysRange, SaysClose
<1>3. CASE UNCHANGED <<inbox, documents, buf, ranged>>
  BY <1>3 DEF Synced, WillHold, HoldsLast, Underway, Touches, CarriesText, TextOf,
              Accepted, LastChange
<1> QED
  BY <1>1, <1>2, <1>3, StepsAre DEF ClientReceive, vars, serverVars, clientVars

LEMMA NoSilentCorruptionNext ==
    TypeOK /\ InboxKnown /\ NoSilentCorruption /\ [Next]_vars => NoSilentCorruption'
<1> SUFFICES ASSUME TypeOK, InboxKnown, NoSilentCorruption, [Next]_vars,
                    NEW w \in DOMAIN documents'
             PROVE  documents'[w].text \in had'[w] \cup {Disk[w]}
  BY DEF NoSilentCorruption
<1>0. DOMAIN documents \subseteq Uri /\ DOMAIN documents' \subseteq Uri
  BY NextType DEF TypeOK
<1>1. CASE ServerStep
  <2> DEFINE m == Head(inbox)
  <2>1. CASE Touches(m, w)
    <3>1. CarriesText(m) /\ documents'[w].text = TextOf(m)
      BY <1>0, <1>1, <2>1 DEF ServerStep, TakesIn
    <3>2. KnownText(m)
      BY <1>1, InboxPop DEF ServerStep, InboxKnown
    <3>3. TextOf(m) \in had[w]
      BY <2>1, <3>1, <3>2 DEF KnownText, Touches
    <3> QED
      BY <1>1, <3>1, <3>3 DEF ServerStep, clientVars
  <2>2. CASE ~ Touches(m, w)
    BY <1>0, <1>1, <2>2 DEF ServerStep, TakesIn, clientVars, NoSilentCorruption
  <2> QED
    BY <2>1, <2>2
<1>2. ASSUME NEW u \in Uri, NEW m, UserStep(u, m)
      PROVE  documents'[w].text \in had'[w] \cup {Disk[w]}
  BY <1>0, <1>2 DEF UserStep, NoSilentCorruption
<1>3. CASE UNCHANGED <<documents, had>>
  BY <1>3 DEF NoSilentCorruption
<1> QED
  BY <1>1, <1>2, <1>3, StepsAre DEF ClientReceive, vars, serverVars, clientVars

\* The syntax errors of a publication are those of the document's text.
LEMMA FileDiagsParse ==
    ASSUME NEW docs, NEW diags, NEW u, docs[u].text \in Text
    PROVE  FileDiags(docs, diags, u) \cap ({"parse"} \X Text) = ParseDiags(docs[u].text)
BY DEF FileDiags, ParseDiags, semantic_diags_for, SemanticKind

LEMMA OutboxTypes ==
    ASSUME TypeOK, NEW i \in DOMAIN outbox, outbox[i].type = "publish"
    PROVE  outbox[i].uri \in Uri /\ outbox[i].version \in Nat \cup {NoVersion}
<1>1. outbox[i] \in ToClient
  BY ElementOfSeq, LenProperties DEF TypeOK
<1> QED
  BY <1>1 DEF ToClient, Publish

LEMMA OutboxNext ==
    ASSUME TypeOK, InboxKnown, OutboxKnown, VersionTagExact, [Next]_vars
    PROVE  OutboxKnown' /\ VersionTagExact'
<1> USE DEF TagExact
<1>0. TypeOK'
  BY NextType
<1>1. CASE ServerStep
  <2> DEFINE m == Head(inbox)
  <2>0. UNCHANGED <<buf, ver>>
    BY <1>1 DEF ServerStep, clientVars
  <2> SUFFICES ASSUME NEW i \in DOMAIN outbox'
               PROVE  KnownVersion(outbox[i])' /\ TagExact(outbox[i])'
    BY DEF OutboxKnown, VersionTagExact
  <2>1. ASSUME NEW j \in DOMAIN outbox, outbox'[i] = outbox[j]
        PROVE  KnownVersion(outbox[i])' /\ TagExact(outbox[i])'
    <3>1. KnownVersion(outbox[j]) /\ TagExact(outbox[j])
      BY DEF OutboxKnown, VersionTagExact
    <3> QED
      BY <2>0, <2>1, <3>1 DEF KnownVersion
  <2>2. CASE outbox'[i].type # "publish"
    BY <2>2 DEF KnownVersion
  <2>3. CASE outbox'[i].type = "publish" /\ outbox'[i].version = NoVersion
    <3>1. outbox'[i].uri \in Uri
      <4>1. outbox'[i] \in ToClient
        BY <1>0, ElementOfSeq, LenProperties DEF TypeOK
      <4> QED
        BY <2>3, <4>1 DEF ToClient, Publish
    <3>2. ver'[outbox'[i].uri] \in Nat
      BY <1>0, <3>1 DEF TypeOK
    <3> QED
      BY <2>3, <3>2, NoVersionAssumption DEF KnownVersion
  <2>4. CASE /\ CarriesText(m)
             /\ outbox'[i] = PublishMsg(m.uri,
                   FileDiags(documents', last_semantic_diags', m.uri), m.version)
    <3>1. KnownText(m) /\ m.uri \in Uri
      BY <1>1, <2>4, InboxPop, InboxUri DEF ServerStep, InboxKnown
    <3>2. m.uri \in DOMAIN documents' /\ documents'[m.uri].text = TextOf(m)
      BY <1>1, <2>4, <3>1 DEF ServerStep, TakesIn, Touches
    <3>3. documents'[m.uri].text \in Text
      BY <1>0, <3>2 DEF TypeOK, DocumentState
    <3>4. FileDiags(documents', last_semantic_diags', m.uri) \cap ({"parse"} \X Text)
            = ParseDiags(TextOf(m))
      BY <3>2, <3>3, FileDiagsParse
    <3>5. /\ outbox'[i].uri = m.uri
          /\ outbox'[i].version = m.version
          /\ outbox'[i].diags = FileDiags(documents', last_semantic_diags', m.uri)
      BY <2>4 DEF PublishMsg
    <3>6. /\ m.version <= ver[m.uri]
          /\ m.version = ver[m.uri] /\ buf[m.uri] # NoText => TextOf(m) = buf[m.uri]
      BY <2>4, <3>1 DEF KnownText
    <3> HIDE DEF m
    <3> QED
      BY <2>0, <3>4, <3>5, <3>6 DEF KnownVersion
  <2> QED
    BY <1>1, <2>1, <2>2, <2>3, <2>4 DEF ServerStep, Answers
<1>2. ASSUME NEW u \in Uri, NEW m, UserStep(u, m) PROVE OutboxKnown' /\ VersionTagExact'
  <2> SUFFICES ASSUME NEW i \in DOMAIN outbox
               PROVE  KnownVersion(outbox[i])' /\ TagExact(outbox[i])'
    BY <1>2 DEF UserStep, OutboxKnown, VersionTagExact
  <2>1. PICK k : k = outbox[i] /\ k = outbox'[i]
    BY <1>2 DEF UserStep
  <2>2. KnownVersion(k) /\ TagExact(k)
    BY <2>1 DEF OutboxKnown, VersionTagExact
  <2>3. CASE k.type # "publish"
    BY <2>1, <2>3 DEF KnownVersion
  <2>4. CASE k.type = "publish"
    <3>1. k.uri \in Uri /\ k.version \in Nat \cup {NoVersion} /\ ver[k.uri] \in Nat
      BY <2>1, <2>4, OutboxTypes DEF TypeOK
    <3>2. k.version = NoVersion \/ k.version <= ver[k.uri]
      BY <2>2, <2>4 DEF KnownVersion
    <3>3. \/ ver'[k.uri] = ver[k.uri] + 1
          \/ ver'[k.uri] = ver[k.uri] /\ (buf'[k.uri] = buf[k.uri] \/ buf'[k.uri] = NoText)
      BY <1>2, <3>1 DEF UserStep, SaysText, SaysRange, SaysClose, SaysNothing
    <3>4. (k.version = NoVersion \/ k.version <= ver'[k.uri])
      BY <3>1, <3>2, <3>3
    <3>5. CASE ver'[k.uri] = ver[k.uri] + 1
      <4>1. k.version # ver'[k.uri]
        BY <3>1, <3>2, <3>5, NoVersionAssumption
      <4> QED
        BY <2>1, <3>4, <4>1 DEF KnownVersion
    <3>6. CASE ver'[k.uri] = ver[k.uri] /\ (buf'[k.uri] = buf[k.uri] \/ buf'[k.uri] = NoText)
      BY <2>1, <2>2, <3>4, <3>6 DEF KnownVersion
    <3> QED
      BY <3>3, <3>5, <3>6
  <2> QED
    BY <2>3, <2>4
<1>3. CASE ClientReceive
  <2>1. outbox \in Seq(ToClient) /\ outbox # <<>> /\ outbox' = Tail(outbox)
          /\ UNCHANGED <<buf, ver>>
    BY <1>3 DEF TypeOK, ClientReceive
  <2>2. \A i \in DOMAIN outbox' : i + 1 \in DOMAIN outbox /\ outbox'[i] = outbox[i + 1]
    BY <2>1, HeadTailProperties, EmptySeq, LenProperties
  <2> QED
    BY <2>1, <2>2 DEF OutboxKnown, VersionTagExact, KnownVersion
<1>4. CASE UNCHANGED <<outbox, buf, ver>>
  BY <1>4 DEF OutboxKnown, VersionTagExact, KnownVersion
<1> QED
  BY <1>1, <1>2, <1>3, <1>4, StepsAre DEF vars, clientVars

LEMMA TextsInit == Init => TextsInv
<1> SUFFICES ASSUME Init PROVE TextsInv
  OBVIOUS
<1>1. DOMAIN outbox = {} /\ DOMAIN documents = {} /\ \A u \in Uri : buf[u] = NoText
  BY DEF Init
<1>2. \A i \in DOMAIN inbox : inbox[i].type = "initialize"
  BY DEF Init
<1>3. InboxKnown
  BY <1>2 DEF InboxKnown, KnownText, CarriesText
<1> QED
  BY <1>1, <1>3 DEF TextsInv, OutboxKnown, Synced, NoSilentCorruption, VersionTagExact

LEMMA TextsNext == TypeOK /\ TextsInv /\ [Next]_vars => TextsInv'
BY InboxKnownNext, SyncedNext, NoSilentCorruptionNext, OutboxNext DEF TextsInv

\* What is known of the messages on their way, and the three properties that
\* rest on it, hold together in every state.
THEOREM TextsCorrect == Spec => []TextsInv
<1> QED
  BY TextsInit, TextsNext, TypeCorrect, PTL DEF Spec

\* The server never works on a text that the buffer never had and that is not
\* the one on disk, whatever ranges an editor sends it (did_change drops them).
THEOREM CorruptionImpossible == Spec => []NoSilentCorruption
<1>1. TextsInv => NoSilentCorruption
  BY DEF TextsInv
<1> QED
  BY <1>1, TextsCorrect, PTL

\* A publication tagged with the version a buffer has now reports the syntax
\* errors of the text the buffer has now (did_open, did_change).
THEOREM VersionTagsCorrect == Spec => []VersionTagExact
<1>1. TextsInv => VersionTagExact
  BY DEF TextsInv
<1> QED
  BY <1>1, TextsCorrect, PTL

\* When no message is on its way to the server, it has the text of every open
\* buffer whose last change it did not have to drop.
THEOREM DrainedCorrect == Spec => []SyncedWhenDrained
<1>1. TextsInv => SyncedWhenDrained
  BY DEF TextsInv, Synced, WillHold, HoldsLast, SyncedWhenDrained
<1> QED
  BY <1>1, TextsCorrect, PTL

=============================================================================
