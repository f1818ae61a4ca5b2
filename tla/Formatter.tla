----------------------------- MODULE Formatter -----------------------------
(***************************************************************************)
(* The main loop of examples/formatter_server.rs after initialization, and *)
(* an editor as its client.  Editor and server each keep a copy of the     *)
(* open documents; the editor reports its edits in notifications, the      *)
(* server applies them, and formatting answers with an edit for the        *)
(* editor.                                                                 *)
(*                                                                         *)
(* The loop awaits handle_request before it reads the next message: while  *)
(* a document is being formatted, notifications wait in the stream.        *)
(* Lifecycle messages and a broken output, which end the loop, are left to *)
(* Connection.  The version of a document is stored and never read; it is  *)
(* left out.                                                               *)
(***************************************************************************)
EXTENDS Documents

CONSTANTS
    Uris,         \* documents
    Texts,        \* texts the editor opens a document with
    Changes,      \* content_changes the editor may send
    MaxMessages   \* bound on the messages the editor sends

Requests == 1..MaxMessages
NoDoc == [open |-> FALSE, text |-> <<>>]
Doc(t) == [open |-> TRUE, text |-> t]
Idle == 0
NoUri == "none"        \* the message is no request
Unnamed == "unnamed"   \* a request that names no document

ASSUME FormatterAssumption ==
    MaxMessages \in Nat /\ NoUri \notin Uris /\ Unnamed \notin Uris

VARIABLES
    editor,     \* the editor's documents
    stream,     \* messages on their way to the server
    count,      \* messages sent
    documents,  \* ServerState.documents
    incoming,   \* ids in request_queue.incoming
    cancelled,  \* requests whose token is cancelled
    busy,       \* the request the loop is awaiting, or Idle
    target,     \* the document of each request
    reply,      \* kind and edits of the response to each request
    asked       \* history: the editor's document when it sent the request

editorVars == <<editor, count, target, asked>>
serverVars == <<documents, incoming, cancelled, busy, reply>>
vars == <<editorVars, stream, serverVars>>

NoReply == [kind |-> "none", edits |-> <<>>]
Plain(kind) == [kind |-> kind, edits |-> <<>>]

Init ==
    /\ editor = [u \in Uris |-> NoDoc]
    /\ stream = <<>>
    /\ count = 0
    /\ documents = [u \in Uris |-> NoDoc]
    /\ incoming = {}
    /\ cancelled = {}
    /\ busy = Idle
    /\ target = [n \in Requests |-> NoUri]
    /\ reply = [n \in Requests |-> NoReply]
    /\ asked = [n \in Requests |-> NoDoc]

---------------------------------------------------------------------------
(* The editor *)

Write(msg) ==
    /\ count < MaxMessages
    /\ count' = count + 1
    /\ stream' = Append(stream, msg)

DidOpen(u, t) == [method |-> "didOpen", uri |-> u, changes |-> <<Replace(t)>>, id |-> 0]
DidChange(u, changes) == [method |-> "didChange", uri |-> u, changes |-> changes, id |-> 0]
DidClose(u) == [method |-> "didClose", uri |-> u, changes |-> <<>>, id |-> 0]
Formatting(u, n) == [method |-> "formatting", uri |-> u, changes |-> <<>>, id |-> n]
Asking(method, n) == [method |-> method, uri |-> Unnamed, changes |-> <<>>, id |-> n]
CancelRequest(n) == [method |-> "cancel", uri |-> target[n], changes |-> <<>>, id |-> n]

EditorOpens(u, t) ==
    /\ ~editor[u].open
    /\ Write(DidOpen(u, t))
    /\ editor' = [editor EXCEPT ![u] = Doc(t)]
    /\ UNCHANGED <<target, asked, serverVars>>

EditorChanges(u, changes) ==
    /\ editor[u].open
    /\ Write(DidChange(u, changes))
    /\ editor' = [editor EXCEPT ![u] = Doc(EditedBy(@.text, changes))]
    /\ UNCHANGED <<target, asked, serverVars>>

EditorCloses(u) ==
    /\ editor[u].open
    /\ Write(DidClose(u))
    /\ editor' = [editor EXCEPT ![u] = NoDoc]
    /\ UNCHANGED <<target, asked, serverVars>>

EditorFormats(u) ==
    /\ Write(Formatting(u, count + 1))
    /\ target' = [target EXCEPT ![count + 1] = u]
    /\ asked' = [asked EXCEPT ![count + 1] = editor[u]]
    /\ UNCHANGED <<editor, serverVars>>

(* formatting with params the server cannot parse, or another request *)
Refused == {"malformed", "unknown"}
EditorAsks(method) ==
    /\ Write(Asking(method, count + 1))
    /\ target' = [target EXCEPT ![count + 1] = Unnamed]
    /\ UNCHANGED <<editor, asked, serverVars>>

(* the editor cancels a request it has no response to *)
EditorCancels(n) ==
    /\ reply[n] = NoReply
    /\ target[n] # NoUri
    /\ Write(CancelRequest(n))
    /\ UNCHANGED <<editor, target, asked, serverVars>>

---------------------------------------------------------------------------
(* run_server: the next message, when no request is being awaited *)

(* mutant: the loop goes on while a request is being handled *)
ReceiveWhileBusy(method) ==
    /\ stream # <<>>
    /\ Head(stream).method = method
    /\ method = "formatting" => busy = Idle
    /\ stream' = Tail(stream)

Receive(method) ==
    /\ busy = Idle
    /\ stream # <<>>
    /\ Head(stream).method = method
    /\ stream' = Tail(stream)

HandleDidOpen ==
    /\ Receive("didOpen")
    /\ LET msg == Head(stream) IN
       documents' = [documents EXCEPT ![msg.uri] = Doc(msg.changes[1].text)]
    /\ UNCHANGED <<editorVars, incoming, cancelled, busy, reply>>

(* mutant: all changes of a notification but the first are dropped *)
HandleDidChangeFirst ==
    /\ Receive("didChange")
    /\ LET msg == Head(stream) IN
       documents' = [documents EXCEPT ![msg.uri] = Doc(ApplyChange(@.text, msg.changes[1]))]
    /\ UNCHANGED <<editorVars, incoming, cancelled, busy, reply>>

HandleDidChange ==
    /\ Receive("didChange")
    /\ LET msg == Head(stream) IN
       documents' = [documents EXCEPT ![msg.uri] =
           IF @.open THEN Doc(ApplyIncrementalChanges(@.text, msg.changes)) ELSE @]
    /\ UNCHANGED <<editorVars, incoming, cancelled, busy, reply>>

HandleDidClose ==
    /\ Receive("didClose")
    /\ documents' = [documents EXCEPT ![Head(stream).uri] = NoDoc]
    /\ UNCHANGED <<editorVars, incoming, cancelled, busy, reply>>

(* mutant: no response when the document is not found *)
HandleFormattingSilent ==
    /\ Receive("formatting")
    /\ LET msg == Head(stream) IN
       /\ busy' = IF documents[msg.uri].open THEN msg.id ELSE Idle
       /\ incoming' = incoming \cup {msg.id}
    /\ UNCHANGED <<editorVars, documents, cancelled, reply>>

(* route() registers the request; format_document fails at once if the     *)
(* document is not open, otherwise it sleeps.  In the first case the loop  *)
(* goes on to respond and complete.                                        *)
HandleFormatting ==
    /\ Receive("formatting")
    /\ LET msg == Head(stream) IN
       \/ /\ documents[msg.uri].open
          /\ busy' = msg.id
          /\ incoming' = incoming \cup {msg.id}
          /\ UNCHANGED reply
       \/ /\ ~documents[msg.uri].open
          /\ reply' = [reply EXCEPT ![msg.id] = Plain("notFound")]
          /\ UNCHANGED <<busy, incoming>>
    /\ UNCHANGED <<editorVars, documents, cancelled>>

(* handle_request answers at once: respond and complete *)
Refuse(method, kind) ==
    /\ Receive(method)
    /\ reply' = [reply EXCEPT ![Head(stream).id] = Plain(kind)]
    /\ UNCHANGED <<editorVars, documents, incoming, cancelled, busy>>

InvalidParams == Refuse("malformed", "invalidParams")
MethodNotFound == Refuse("unknown", "methodNotFound")

(* route() of $/cancelRequest *)
HandleCancel ==
    /\ Receive("cancel")
    /\ cancelled' = cancelled \cup (incoming \cap {Head(stream).id})
    /\ UNCHANGED <<editorVars, documents, incoming, busy, reply>>

(* the 200 ms are over: check the token, make the edit, respond, complete *)
FormatDocument ==
    /\ busy # Idle
    /\ reply' = [reply EXCEPT ![busy] =
           IF busy \in cancelled THEN Plain("cancelled")
           ELSE [kind |-> "edits",
                 edits |-> CreateUppercaseEdit(documents[target[busy]].text)]]
    /\ incoming' = incoming \ {busy}
    /\ busy' = Idle
    /\ UNCHANGED <<editorVars, stream, documents, cancelled>>

---------------------------------------------------------------------------
ServerStep ==
    \/ HandleDidOpen \/ HandleDidChange \/ HandleDidClose
    \/ HandleFormatting \/ InvalidParams \/ MethodNotFound
    \/ HandleCancel \/ FormatDocument

Next ==
    \/ \E u \in Uris :
         \/ \E t \in Texts : EditorOpens(u, t)
         \/ \E changes \in Changes : EditorChanges(u, changes)
         \/ EditorCloses(u)
         \/ EditorFormats(u)
    \/ \E method \in Refused : EditorAsks(method)
    \/ \E n \in Requests : EditorCancels(n)
    \/ ServerStep

Spec == Init /\ [][Next]_vars

---------------------------------------------------------------------------
(* The server's copy: once everything in the stream is handled, the        *)
(* documents of server and editor are the same, whatever sequence of       *)
(* edits, in UTF-16 positions, has been made.  Stated for an empty stream: *)
(* the server handles one message at a time, so this says the same of      *)
(* every prefix of the editor's messages.                                  *)
InSync == stream = <<>> => documents = editor

(* A response with edits turns the document the editor asked to format     *)
(* into its uppercase form when the editor applies it by the protocol's    *)
(* rules, although the editor may have sent more changes since.            *)
FormatsWhatWasAsked ==
    \A n \in Requests : reply[n].kind = "edits" =>
        /\ asked[n].open
        /\ EditedBy(asked[n].text, reply[n].edits) = ToUppercase(asked[n].text)

(* When the server has nothing left to do, every request has its response, *)
(* whether or not the server understood it, found the document, and        *)
(* whatever was sent after it.                                             *)
AllAnswered ==
    stream = <<>> /\ busy = Idle =>
        \A n \in Requests : target[n] # NoUri => reply[n] # NoReply

(* Cancelling comes too late, always: the loop awaits handle_request, and  *)
(* route() sees a $/cancelRequest only after the response to the request   *)
(* it names.  No request is answered as cancelled, and none has its token  *)
(* cancelled, whenever the editor asks for it.                             *)
CancelsTooLate ==
    /\ cancelled = {}
    /\ \A n \in Requests : reply[n].kind # "cancelled"
===========================================================================
