-------------------------- MODULE Formatter_proofs --------------------------
(***************************************************************************)
(* Proofs about Formatter, for any number of documents and messages.  That *)
(* every request is answered does not depend on what the texts are.  That  *)
(* the two copies agree, and that formatting changes the text that was     *)
(* asked for, is proved from what the text arithmetic of Documents does    *)
(* for a single notification (Faithful), which is recursive and checked by *)
(* TLC: the proof is about the order in which messages are handled.        *)
(***************************************************************************)
EXTENDS Formatter, TLAPS

(* The messages the editor sends. *)
Asked == {"formatting"} \cup Refused
Methods == {"didOpen", "didChange", "didClose", "cancel"} \cup Asked
Documented == Uris \cup {NoUri, Unnamed}
Notified == Changes \cup {<<Replace(t)>> : t \in Texts} \cup {<<>>}
Sent == [method : Methods, uri : Documented, changes : Notified, id : 0..MaxMessages]

(* The types, and which requests can be where: a response is only to a     *)
(* request that was made, and what is in the stream names a document.      *)
Types ==
    /\ count \in 0..MaxMessages
    /\ stream \in Seq(Sent)
    /\ busy \in 0..count
    /\ target \in [Requests -> Documented]
    /\ DOMAIN reply = Requests /\ DOMAIN asked = Requests
    /\ \A n \in Requests : reply[n] # NoReply => n <= count
    /\ \A i \in 1..Len(stream) : stream[i].method \in Asked => stream[i].id \in 1..count
    /\ \A i \in 1..Len(stream) :
           stream[i].method \in {"didOpen", "didChange", "didClose", "formatting"} =>
               stream[i].uri \in Uris

(* Request n is in the stream; a request without a response is being       *)
(* handled or in the stream.                                               *)
Queued(n) ==
    \E i \in 1..Len(stream) : stream[i].method \in Asked /\ stream[i].id = n

Owed == \A n \in Requests : target[n] # NoUri => reply[n] # NoReply \/ busy = n \/ Queued(n)

(* Initially nothing is owed. *)
LEMMA InitTypes == Init => Types /\ Owed
<1> SUFFICES ASSUME Init PROVE Types /\ Owed
  OBVIOUS
<1> USE DEF Init
<1>1. stream \in Seq(Sent) /\ Len(stream) = 0
  OBVIOUS
<1>2. count \in 0..MaxMessages /\ busy \in 0..count
  BY FormatterAssumption DEF Idle
<1>. QED  BY <1>1, <1>2 DEF Types, Owed, Documented

(* A message of the editor is appended to the stream. *)
LEMMA Written ==
    ASSUME Types, NEW msg, Write(msg), msg \in Sent, UNCHANGED serverVars,
           target' \in [Requests -> Documented], DOMAIN asked' = Requests,
           msg.method \in Asked => msg.id = count + 1,
           msg.method \in {"didOpen", "didChange", "didClose", "formatting"} => msg.uri \in Uris
    PROVE  /\ Types'
           /\ \A n \in Requests : Queued(n) => Queued(n)'
           /\ msg.method \in Asked => Queued(msg.id)'
           /\ Len(stream') = Len(stream) + 1 /\ stream'[Len(stream) + 1] = msg
           /\ \A i \in 1..Len(stream) : stream'[i] = stream[i]
<1>0. /\ count < MaxMessages /\ count' = count + 1 /\ stream' = Append(stream, msg)
      /\ UNCHANGED <<documents, incoming, cancelled, busy, reply>>
  BY DEF Write, serverVars
<1>1. /\ stream \in Seq(Sent) /\ Len(stream) \in Nat
      /\ count \in 0..MaxMessages /\ MaxMessages \in Nat
  BY FormatterAssumption DEF Types
<1>2. /\ stream' \in Seq(Sent) /\ Len(stream') = Len(stream) + 1 /\ stream'[Len(stream) + 1] = msg
      /\ \A i \in 1..Len(stream) : stream'[i] = stream[i]
  BY <1>0, <1>1
<1>3. \A i \in 1..Len(stream') : i \in 1..Len(stream) \/ i = Len(stream) + 1
  BY <1>1, <1>2
<1>4. count' \in 0..MaxMessages /\ busy' \in 0..count' /\ (\A n \in 1..count : n \in 1..count')
      /\ count + 1 \in 1..count' /\ (\A n \in Requests : n <= count => n <= count')
  BY <1>0, <1>1 DEF Types, Requests
<1>5. Types'
  <2>1. \A i \in 1..Len(stream') : stream'[i].method \in Asked => stream'[i].id \in 1..count'
    BY <1>2, <1>3, <1>4 DEF Types
  <2>2. \A i \in 1..Len(stream') :
            stream'[i].method \in {"didOpen", "didChange", "didClose", "formatting"} =>
                stream'[i].uri \in Uris
    BY <1>2, <1>3 DEF Types
  <2>3. \A n \in Requests : reply'[n] # NoReply => n <= count'
    BY <1>0, <1>4 DEF Types
  <2>. QED  BY <1>0, <1>2, <1>4, <2>1, <2>2, <2>3 DEF Types
<1>6. \A n \in Requests : Queued(n) => Queued(n)'
  <2>1. \A i \in 1..Len(stream) : i \in 1..Len(stream')
    BY <1>1, <1>2
  <2>. QED  BY <1>2, <2>1 DEF Queued
<1>7. ASSUME msg.method \in Asked PROVE Queued(msg.id)'
  <2>0. PICK c \in Nat : c = Len(stream) + 1
    BY <1>1
  <2>1. c \in 1..Len(stream') /\ stream'[c] = msg
    BY <1>1, <1>2, <2>0
  <2>2. \E i \in 1..Len(stream') : stream'[i].method \in Asked /\ stream'[i].id = msg.id
    BY <1>7, <2>1
  <2>. QED  BY <2>2 DEF Queued
<1>. QED  BY <1>2, <1>5, <1>6, <1>7

(* A message is taken from the stream. *)
LEMMA Taken ==
    ASSUME Types, NEW method, Receive(method)
    PROVE  /\ Len(stream) >= 1 /\ 1 \in 1..Len(stream)
           /\ Head(stream) = stream[1] /\ stream[1] \in Sent /\ stream[1].method = method
           /\ stream' \in Seq(Sent) /\ Len(stream') = Len(stream) - 1
           /\ \A i \in 1..Len(stream') : i + 1 \in 1..Len(stream) /\ stream'[i] = stream[i + 1]
           /\ \A n \in Requests :
                 Queued(n) => Queued(n)' \/ (method \in Asked /\ stream[1].id = n)
<1>0. busy = Idle /\ stream # <<>> /\ Head(stream).method = method /\ stream' = Tail(stream)
  BY DEF Receive
<1>1. stream \in Seq(Sent)
  BY DEF Types
<1>2. Len(stream) \in Nat /\ Len(stream) >= 1 /\ Head(stream) = stream[1] /\ stream[1] \in Sent
  BY <1>0, <1>1
<1>3. /\ stream' \in Seq(Sent) /\ Len(stream') = Len(stream) - 1
      /\ \A i \in 1..(Len(stream) - 1) : stream'[i] = stream[i + 1]
  BY <1>0, <1>1
<1>4. ASSUME NEW n \in Requests, NEW i \in 1..Len(stream),
             stream[i].method \in Asked /\ stream[i].id = n
      PROVE  Queued(n)' \/ (method \in Asked /\ stream[1].id = n)
  <2>1. CASE i = 1
    BY <1>0, <1>2, <1>4, <2>1
  <2>2. CASE i # 1
    <3>1. PICK j \in 1..(Len(stream) - 1) : i = j + 1
      <4>1. i - 1 \in 1..(Len(stream) - 1) /\ i = (i - 1) + 1
        BY <1>2, <2>2
      <4>. QED  BY <4>1
    <3>2. j \in 1..Len(stream') /\ stream'[j] = stream[i]
      BY <1>3, <3>1
    <3>3. \E k \in 1..Len(stream') : stream'[k].method \in Asked /\ stream'[k].id = n
      BY <1>4, <3>2
    <3>. QED  BY <3>3 DEF Queued
  <2>. QED  BY <2>1, <2>2
<1>5. \A i \in 1..Len(stream') : i + 1 \in 1..Len(stream)
  BY <1>2, <1>3
<1>. QED  BY <1>0, <1>2, <1>3, <1>4, <1>5 DEF Queued

(* What a handler does to the stream and the counters keeps the types. *)
LEMMA TakenTypes ==
    ASSUME Types, NEW method, Receive(method), UNCHANGED editorVars,
           busy' \in 0..count, DOMAIN reply' = Requests,
           \A n \in Requests : reply'[n] # NoReply => n <= count
    PROVE  Types'
<1>0. UNCHANGED <<editor, count, target, asked>>
  BY DEF editorVars
<1>1. /\ stream' \in Seq(Sent)
      /\ \A i \in 1..Len(stream') : i + 1 \in 1..Len(stream) /\ stream'[i] = stream[i + 1]
  BY Taken
<1>. QED  BY <1>0, <1>1 DEF Types

(* Every step keeps the types and what is owed: a request leaves the       *)
(* stream only when the loop answers it or awaits it.                      *)
LEMMA OwedStep == Types /\ Owed /\ [Next]_vars => Types' /\ Owed'
<1> SUFFICES ASSUME Types, Owed, [Next]_vars PROVE Types' /\ Owed'
  OBVIOUS
<1>t. /\ count \in 0..MaxMessages /\ MaxMessages \in Nat
      /\ NoUri \notin Uris /\ NoUri # Unnamed /\ Uris \subseteq Documented
      /\ Unnamed \in Documented /\ target \in [Requests -> Documented]
      /\ DOMAIN reply = Requests /\ DOMAIN asked = Requests
  BY FormatterAssumption DEF Types, Documented, NoUri, Unnamed
<1>m. Asked = {"formatting", "malformed", "unknown"}
  BY DEF Asked, Refused
<1>w. ASSUME NEW msg, Write(msg), msg \in Sent, UNCHANGED <<serverVars, target, asked>>,
             msg.method \notin Asked,
             msg.method \in {"didOpen", "didChange", "didClose"} => msg.uri \in Uris
      PROVE  Types' /\ Owed'
  <2>1. Types' /\ \A n \in Requests : Queued(n) => Queued(n)'
    BY <1>m, <1>t, <1>w, Written
  <2>2. UNCHANGED <<busy, reply, target>>
    BY <1>w DEF serverVars
  <2>. QED  BY <2>1, <2>2 DEF Owed
<1>1. ASSUME NEW u \in Uris, NEW t \in Texts, EditorOpens(u, t) PROVE Types' /\ Owed'
  <2>1. DidOpen(u, t) \in Sent /\ DidOpen(u, t).method = "didOpen" /\ DidOpen(u, t).uri = u
    BY <1>t DEF DidOpen, Sent, Methods, Notified
  <2>. QED  BY <1>1, <1>m, <1>w, <2>1 DEF EditorOpens
<1>2. ASSUME NEW u \in Uris, NEW c \in Changes, EditorChanges(u, c) PROVE Types' /\ Owed'
  <2>1. DidChange(u, c) \in Sent /\ DidChange(u, c).method = "didChange" /\ DidChange(u, c).uri = u
    BY <1>t DEF DidChange, Sent, Methods, Notified
  <2>. QED  BY <1>2, <1>m, <1>w, <2>1 DEF EditorChanges
<1>3. ASSUME NEW u \in Uris, EditorCloses(u) PROVE Types' /\ Owed'
  <2>1. DidClose(u) \in Sent /\ DidClose(u).method = "didClose" /\ DidClose(u).uri = u
    BY <1>t DEF DidClose, Sent, Methods, Notified
  <2>. QED  BY <1>3, <1>m, <1>w, <2>1 DEF EditorCloses
<1>q. ASSUME NEW msg \in Sent, Write(msg), msg.method \in Asked, msg.id = count + 1,
             NEW u \in Documented, target' = [target EXCEPT ![count + 1] = u],
             DOMAIN asked' = Requests, UNCHANGED serverVars,
             msg.method = "formatting" => msg.uri \in Uris
      PROVE  Types' /\ Owed'
  <2>1. /\ target' \in [Requests -> Documented]
        /\ \A n \in Requests : n # count + 1 => target'[n] = target[n]
    BY <1>q, <1>t
  <2>2. Types' /\ (\A n \in Requests : Queued(n) => Queued(n)') /\ Queued(msg.id)'
    BY <1>m, <1>q, <2>1, Written
  <2>3. UNCHANGED <<busy, reply>>
    BY <1>q DEF serverVars
  <2>. QED  BY <1>q, <2>1, <2>2, <2>3 DEF Owed
<1>4. ASSUME NEW u \in Uris, EditorFormats(u) PROVE Types' /\ Owed'
  <2>m. PICK msg : msg = Formatting(u, count + 1)
    OBVIOUS
  <2>0. /\ Write(msg) /\ count < MaxMessages /\ UNCHANGED <<editor, serverVars>>
        /\ target' = [target EXCEPT ![count + 1] = u]
        /\ asked' = [asked EXCEPT ![count + 1] = editor[u]]
    BY <1>4, <2>m DEF EditorFormats, Write
  <2>1. msg \in Sent /\ msg.method = "formatting" /\ msg.uri = u /\ msg.id = count + 1
    BY <1>m, <1>t, <2>0, <2>m DEF Formatting, Sent, Methods, Notified
  <2>2. DOMAIN asked' = Requests /\ u \in Documented
    BY <1>t, <2>0
  <2>. QED  BY <1>m, <1>q, <2>0, <2>1, <2>2
<1>a. ASSUME NEW method \in Refused, EditorAsks(method) PROVE Types' /\ Owed'
  <2>m. PICK msg : msg = Asking(method, count + 1)
    OBVIOUS
  <2>0. /\ Write(msg) /\ count < MaxMessages /\ UNCHANGED <<editor, asked, serverVars>>
        /\ target' = [target EXCEPT ![count + 1] = Unnamed]
    BY <1>a, <2>m DEF EditorAsks, Write
  <2>1. msg \in Sent /\ msg.method = method /\ msg.id = count + 1
    BY <1>a, <1>t, <2>0, <2>m DEF Asking, Sent, Methods, Asked, Notified
  <2>2. method \in Asked /\ method # "formatting"
    BY <1>a DEF Asked, Refused
  <2>. QED  BY <1>q, <1>t, <2>0, <2>1, <2>2
<1>5. ASSUME NEW n \in Requests, EditorCancels(n) PROVE Types' /\ Owed'
  <2>1. CancelRequest(n) \in Sent /\ CancelRequest(n).method = "cancel"
    BY <1>t DEF CancelRequest, Sent, Methods, Notified, Requests
  <2>. QED  BY <1>5, <1>m, <1>w, <2>1 DEF EditorCancels
<1>h. ASSUME NEW method, Receive(method), method \notin Asked,
             UNCHANGED <<editorVars, busy, reply>>
      PROVE  Types' /\ Owed'
  <2>1. Types'
    BY <1>h, TakenTypes DEF Types
  <2>2. \A n \in Requests : Queued(n) => Queued(n)'
    BY <1>h, Taken
  <2>. QED  BY <1>h, <2>1, <2>2 DEF Owed, editorVars
<1>6. CASE HandleDidOpen
  BY <1>6, <1>h, <1>m DEF HandleDidOpen
<1>7. CASE HandleDidChange
  BY <1>7, <1>h, <1>m DEF HandleDidChange
<1>8. CASE HandleDidClose
  BY <1>8, <1>h, <1>m DEF HandleDidClose
<1>9. CASE HandleCancel
  BY <1>9, <1>h, <1>m DEF HandleCancel
<1>r. ASSUME NEW method \in Asked, Receive(method), UNCHANGED editorVars,
             NEW k, Plain(k) # NoReply,
             \/ busy' = Head(stream).id /\ UNCHANGED reply
             \/ reply' = [reply EXCEPT ![Head(stream).id] = Plain(k)] /\ UNCHANGED busy
      PROVE  Types' /\ Owed'
  <2>0. PICK m \in Sent : m = Head(stream) /\ m = stream[1] /\ m.method = method
    BY <1>r, Taken
  <2>1. m.id \in 1..count /\ m.id \in Requests /\ busy = Idle
    BY <1>r, <1>t, <2>0, Taken DEF Types, Receive, Requests
  <2>2. \A n \in Requests : Queued(n) => Queued(n)' \/ m.id = n
    BY <1>r, <2>0, Taken
  <2>3. PICK new : new = Plain(k) /\ new # NoReply
    BY <1>r
  <2>4. \/ busy' = m.id /\ UNCHANGED reply
        \/ reply' = [reply EXCEPT ![m.id] = new] /\ UNCHANGED busy
    BY <1>r, <2>0, <2>3
  <2>6. DOMAIN reply' = Requests /\ busy' \in 0..count
        /\ (\A n \in Requests : n # m.id => reply'[n] = reply[n])
        /\ (busy' = m.id \/ reply'[m.id] # NoReply)
    BY <1>t, <2>1, <2>3, <2>4 DEF Types, Idle
  <2>7. \A n \in Requests : reply'[n] # NoReply => n <= count
    <3>1. m.id <= count
      BY <1>t, <2>1
    <3>. QED  BY <2>6, <3>1 DEF Types
  <2>8. Types'
    BY <1>r, <2>6, <2>7, TakenTypes
  <2>9. ASSUME NEW n \in Requests, target'[n] # NoUri
        PROVE  reply'[n] # NoReply \/ busy' = n \/ Queued(n)'
    <3>1. reply[n] # NoReply \/ Queued(n)
      BY <1>r, <1>t, <2>1, <2>9 DEF Owed, editorVars, Idle, Requests
    <3>. QED  BY <2>2, <2>6, <3>1
  <2>. QED  BY <2>8, <2>9 DEF Owed
<1>p. /\ Plain("notFound") # NoReply /\ Plain("invalidParams") # NoReply
      /\ Plain("methodNotFound") # NoReply
  BY DEF Plain, NoReply
<1>10. CASE HandleFormatting
  <2>1. /\ Receive("formatting") /\ UNCHANGED editorVars
        /\ \/ busy' = Head(stream).id /\ UNCHANGED reply
           \/ reply' = [reply EXCEPT ![Head(stream).id] = Plain("notFound")] /\ UNCHANGED busy
    BY <1>10 DEF HandleFormatting
  <2>. QED  BY <1>m, <1>p, <1>r, <2>1
<1>b. CASE InvalidParams
  <2>1. /\ Receive("malformed") /\ UNCHANGED <<editorVars, busy>>
        /\ reply' = [reply EXCEPT ![Head(stream).id] = Plain("invalidParams")]
    BY <1>b DEF InvalidParams, Refuse
  <2>. QED  BY <1>m, <1>p, <1>r, <2>1
<1>c. CASE MethodNotFound
  <2>1. /\ Receive("unknown") /\ UNCHANGED <<editorVars, busy>>
        /\ reply' = [reply EXCEPT ![Head(stream).id] = Plain("methodNotFound")]
    BY <1>c DEF MethodNotFound, Refuse
  <2>. QED  BY <1>m, <1>p, <1>r, <2>1
<1>11. CASE FormatDocument
  <2>0. PICK e : e = IF busy \in cancelled THEN Plain("cancelled")
                     ELSE [kind |-> "edits",
                           edits |-> CreateUppercaseEdit(documents[target[busy]].text)]
    OBVIOUS
  <2>1. /\ busy # Idle /\ reply' = [reply EXCEPT ![busy] = e] /\ busy' = Idle
        /\ UNCHANGED <<editor, count, target, asked, stream>>
    BY <1>11, <2>0 DEF FormatDocument, editorVars
  <2>2. e # NoReply
    <3>1. e.kind # "none"
      BY <2>0 DEF Plain
    <3>. QED  BY <3>1 DEF NoReply
  <2>3. busy \in 1..count /\ busy \in Requests /\ busy <= count
    BY <1>t, <2>1 DEF Types, Idle, Requests
  <2>4. DOMAIN reply' = Requests /\ reply'[busy] # NoReply
        /\ \A n \in Requests : n # busy => reply'[n] = reply[n]
    BY <1>t, <2>1, <2>2, <2>3
  <2>5. Types'
    <3>1. \A n \in Requests : reply'[n] # NoReply => n <= count
      BY <2>3, <2>4 DEF Types
    <3>2. busy' \in 0..count
      BY <1>t, <2>1 DEF Idle
    <3>. QED  BY <2>1, <2>4, <3>1, <3>2 DEF Types
  <2>6. \A n \in Requests : Queued(n)' <=> Queued(n)
    BY <2>1 DEF Queued
  <2>. QED  BY <2>1, <2>4, <2>5, <2>6 DEF Owed
<1>12. CASE UNCHANGED vars
  BY <1>12 DEF vars, editorVars, serverVars, Types, Owed, Queued
<1>. QED
  BY <1>1, <1>2, <1>3, <1>4, <1>5, <1>6, <1>7, <1>8, <1>9, <1>10, <1>11, <1>12,
     <1>a, <1>b, <1>c
     DEF Next, ServerStep

(* Every request has its response once the server has nothing left to do:  *)
(* a request is always answered, being handled, or in the stream.          *)
THEOREM RequestsAnswered == Spec => []AllAnswered
<1>1. Init => Types /\ Owed
  BY InitTypes
<1>2. Types /\ Owed /\ [Next]_vars => Types' /\ Owed'
  BY OwedStep
<1>3. Types /\ Owed => AllAnswered
  BY DEF Owed, Queued, AllAnswered, Idle, Requests
<1>. QED  BY <1>1, <1>2, <1>3, PTL DEF Spec

(* Only the request being awaited is in request_queue.incoming. *)
Prompt == incoming \subseteq {busy} \ {Idle} /\ CancelsTooLate

(* A cancellation finds no request: the loop reads it when it is idle, and *)
(* then the table of incoming requests is empty.                           *)
LEMMA PromptStep == Types /\ Prompt /\ [Next]_vars => Prompt'
<1> SUFFICES ASSUME Types, Prompt, [Next]_vars PROVE Prompt'
  OBVIOUS
<1>1. incoming \subseteq {busy} \ {Idle} /\ cancelled = {}
      /\ DOMAIN reply = Requests /\ \A n \in Requests : reply[n].kind # "cancelled"
  BY DEF Prompt, CancelsTooLate, Types
<1>2. CASE UNCHANGED <<incoming, cancelled, busy, reply>>
  BY <1>1, <1>2 DEF Prompt, CancelsTooLate
<1>3. CASE HandleFormatting
  <2>1. PICK m \in Sent : m = Head(stream) /\ m = stream[1] /\ m.method = "formatting"
                        /\ 1 \in 1..Len(stream)
    BY <1>3, Taken DEF HandleFormatting
  <2>2. m.id # Idle /\ busy = Idle
    BY <1>3, <2>1 DEF Types, Asked, Idle, HandleFormatting, Receive
  <2>3. PICK new : new.kind # "cancelled"
          /\ \/ busy' = m.id /\ incoming' = incoming \cup {m.id} /\ UNCHANGED reply
             \/ reply' = [reply EXCEPT ![m.id] = new] /\ UNCHANGED <<busy, incoming>>
    BY <1>3, <2>1 DEF HandleFormatting, Plain
  <2>4. cancelled' = {}
    BY <1>1, <1>3 DEF HandleFormatting
  <2>5. \A n \in Requests : reply'[n].kind # "cancelled"
    BY <1>1, <2>3
  <2>. QED  BY <1>1, <2>2, <2>3, <2>4, <2>5 DEF Prompt, CancelsTooLate
<1>4. ASSUME NEW method, NEW k, k # "cancelled", Refuse(method, k) PROVE Prompt'
  <2>1. PICK new : new.kind # "cancelled" /\ reply' = [reply EXCEPT ![Head(stream).id] = new]
    BY <1>4 DEF Refuse, Plain
  <2>2. UNCHANGED <<incoming, cancelled, busy>>
    BY <1>4 DEF Refuse
  <2>3. \A n \in Requests : reply'[n].kind # "cancelled"
    BY <1>1, <2>1
  <2>. QED  BY <1>1, <2>2, <2>3 DEF Prompt, CancelsTooLate
<1>5. CASE HandleCancel
  <2>1. busy = Idle /\ UNCHANGED <<incoming, busy, reply>>
        /\ cancelled' = cancelled \cup (incoming \cap {Head(stream).id})
    BY <1>5 DEF HandleCancel, Receive
  <2>. QED  BY <1>1, <2>1 DEF Prompt, CancelsTooLate
<1>6. CASE FormatDocument
  <2>1. PICK new : new.kind # "cancelled" /\ reply' = [reply EXCEPT ![busy] = new]
    <3>1. PICK new : /\ new = [kind |-> "edits",
                               edits |-> CreateUppercaseEdit(documents[target[busy]].text)]
                     /\ reply' = [reply EXCEPT ![busy] = new]
      BY <1>1, <1>6 DEF FormatDocument
    <3>2. new.kind = "edits"
      BY <3>1
    <3>. QED  BY <3>1, <3>2
  <2>2. incoming' = incoming \ {busy} /\ busy' = Idle /\ cancelled' = {}
    BY <1>1, <1>6 DEF FormatDocument
  <2>3. \A n \in Requests : reply'[n].kind # "cancelled"
    BY <1>1, <2>1
  <2>. QED  BY <1>1, <2>2, <2>3 DEF Prompt, CancelsTooLate
<1>. QED
  BY <1>2, <1>3, <1>4, <1>5, <1>6
     DEF Next, ServerStep, EditorOpens, EditorChanges, EditorCloses, EditorFormats, EditorAsks,
         EditorCancels, HandleDidOpen, HandleDidChange, HandleDidClose, InvalidParams,
         MethodNotFound, serverVars, vars

(* The loop of the example never answers a request as cancelled, for any   *)
(* number of requests and cancellations in any order.                      *)
THEOREM NothingCancelled == Spec => []CancelsTooLate
<1>1. Init => Types /\ Owed /\ Prompt
  BY InitTypes DEF Init, Prompt, CancelsTooLate, NoReply
<1>2. Types /\ Owed /\ Prompt /\ [Next]_vars => Types' /\ Owed' /\ Prompt'
  BY OwedStep, PromptStep
<1>3. Prompt => CancelsTooLate
  BY DEF Prompt
<1>. QED  BY <1>1, <1>2, <1>3, PTL DEF Spec

---------------------------------------------------------------------------
(* The two copies of the documents *)

(* On the texts of T, which the editor cannot leave, the server's edits    *)
(* are those of the protocol, and the edit that formatting answers with    *)
(* replaces the whole text.                                                *)
Faithful(T) ==
    /\ Texts \subseteq T
    /\ \A t \in T, changes \in Changes :
          /\ EditedBy(t, changes) \in T
          /\ ApplyIncrementalChanges(t, changes) = EditedBy(t, changes)
    /\ \A t \in T : EditedBy(t, CreateUppercaseEdit(t)) = ToUppercase(t)

Copies(T) == [Uris -> {NoDoc} \cup {Doc(t) : t \in T}]

(* The message takes the editor's documents from d to e; a request was     *)
(* made for a document of d.                                               *)
Link(d, msg, e) ==
    /\ msg.method = "didOpen" => e = [d EXCEPT ![msg.uri] = Doc(msg.changes[1].text)]
    /\ msg.method = "didChange" =>
          /\ d[msg.uri].open
          /\ e = [d EXCEPT ![msg.uri] =
                      Doc(ApplyIncrementalChanges(d[msg.uri].text, msg.changes))]
    /\ msg.method = "didClose" => e = [d EXCEPT ![msg.uri] = NoDoc]
    /\ msg.method = "formatting" =>
          e = d /\ target[msg.id] = msg.uri /\ asked[msg.id] = d[msg.uri]
    /\ msg.method \in Refused \cup {"cancel"} => e = d

(* views: what the editor had before the first message that the server has *)
(* not handled, and after each one of them                                 *)
Chain(views) ==
    /\ views[0] = documents /\ views[Len(stream)] = editor
    /\ \A i \in 1..Len(stream) : Link(views[i - 1], stream[i], views[i])
Linked(T) == \E views \in [0..Len(stream) -> Copies(T)] : Chain(views)

(* The document being formatted is the one that was asked for. *)
Awaited ==
    busy # Idle =>
        /\ target[busy] \in Uris
        /\ documents[target[busy]] = asked[busy] /\ asked[busy].open

Synced(T) == Types /\ Owed /\ Linked(T) /\ Awaited /\ FormatsWhatWasAsked

(* A message of the editor extends the chain by the documents it leaves. *)
LEMMA LinkedAppend ==
    ASSUME NEW T, Types, Linked(T), NEW msg \in Sent, stream' = Append(stream, msg),
           documents' = documents,
           NEW d, d = editor, NEW e \in Copies(T), e = editor',
           \A n \in 1..count : target'[n] = target[n] /\ asked'[n] = asked[n],
           Link(d, msg, e)'
    PROVE  Linked(T)'
<1>0. PICK z \in Nat : z = Len(stream)
  BY DEF Types
<1>1. /\ stream \in Seq(Sent) /\ Len(stream') = z + 1 /\ stream'[z + 1] = msg
      /\ \A i \in 1..z : stream'[i] = stream[i]
  BY <1>0 DEF Types
<1>2. PICK views \in [0..z -> Copies(T)] : Chain(views)
  BY <1>0 DEF Linked
<1>3. /\ views[0] = documents /\ views[z] = editor
      /\ \A i \in 1..z : Link(views[i - 1], stream[i], views[i])
  BY <1>0, <1>2 DEF Chain
<1>4. PICK v : v = [i \in 0..(z + 1) |-> IF i = z + 1 THEN e ELSE views[i]]
  OBVIOUS
<1>5. \A i \in 0..(z + 1) : i = z + 1 \/ i \in 0..z
  OBVIOUS
<1>6. v \in [0..(z + 1) -> Copies(T)]
  BY <1>4, <1>5
<1>7. v[z + 1] = e /\ \A i \in 0..z : v[i] = views[i]
  <2>1. z + 1 \in 0..(z + 1) /\ \A i \in 0..z : i \in 0..(z + 1) /\ i # z + 1
    OBVIOUS
  <2>. QED  BY <1>4, <2>1
<1>8. ASSUME NEW i \in 1..(z + 1) PROVE Link(v[i - 1], stream[i], v[i])'
  <2>1. CASE i = z + 1
    <3>1. i - 1 = z /\ z \in 0..z
      BY <2>1
    <3>2. v[i - 1] = d /\ v[i] = e /\ stream'[i] = msg
      BY <1>1, <1>3, <1>7, <2>1, <3>1
    <3>. QED  BY <3>2 DEF Link
  <2>2. CASE i # z + 1
    <3>1. i \in 1..z /\ i \in 0..z /\ i - 1 \in 0..z
      BY <2>2
    <3>2. /\ v[i - 1] = views[i - 1] /\ v[i] = views[i] /\ stream'[i] = stream[i]
          /\ Link(views[i - 1], stream[i], views[i])
      BY <1>1, <1>3, <1>7, <3>1
    <3>3. stream[i].method = "formatting" => stream[i].id \in 1..count
      BY <1>0, <3>1 DEF Types, Asked
    <3>. QED  BY <3>2, <3>3 DEF Link
  <2>. QED  BY <2>1, <2>2
<1>9. Chain(v)'
  <2>1. v[0] = documents'
    BY <1>3, <1>7
  <2>. QED  BY <1>1, <1>7, <1>8, <2>1 DEF Chain
<1>. QED  BY <1>1, <1>6, <1>9 DEF Linked

(* Taking the first message shortens the chain, if the server does to its  *)
(* documents what the message did to the editor's.                         *)
LEMMA LinkedTail ==
    ASSUME NEW T, Types, Linked(T), NEW method, Receive(method), UNCHANGED editorVars
    PROVE  \E e \in Copies(T) :
               Link(documents, stream[1], e) /\ (documents' = e => Linked(T)')
<1>0. PICK z \in Nat : z = Len(stream)
  BY DEF Types
<1>1. /\ z >= 1 /\ Len(stream') = z - 1
      /\ \A i \in 1..(z - 1) : stream'[i] = stream[i + 1]
  BY <1>0, Taken
<1>2. PICK views \in [0..z -> Copies(T)] : Chain(views)
  BY <1>0 DEF Linked
<1>3. /\ views[0] = documents /\ views[z] = editor
      /\ \A i \in 1..z : Link(views[i - 1], stream[i], views[i])
  BY <1>0, <1>2 DEF Chain
<1>4. PICK v : v = [i \in 0..(z - 1) |-> views[i + 1]]
  OBVIOUS
<1>5. \A i \in 0..(z - 1) : i + 1 \in 0..z
  BY <1>1
<1>6. v \in [0..(z - 1) -> Copies(T)] /\ \A i \in 0..(z - 1) : v[i] = views[i + 1]
  BY <1>4, <1>5
<1>7. views[1] \in Copies(T) /\ Link(documents, stream[1], views[1])
  <2>1. 1 \in 0..z /\ 1 \in 1..z /\ 1 - 1 = 0
    BY <1>1
  <2>. QED  BY <1>2, <1>3, <2>1
<1>8. ASSUME documents' = views[1] PROVE Linked(T)'
  <2>1. UNCHANGED <<editor, count, target, asked>>
    BY DEF editorVars
  <2>2. v[0] = documents' /\ v[z - 1] = editor'
    <3>1. 0 \in 0..(z - 1) /\ 0 + 1 = 1 /\ z - 1 \in 0..(z - 1) /\ (z - 1) + 1 = z
      BY <1>1
    <3>. QED  BY <1>3, <1>6, <1>8, <2>1, <3>1
  <2>3. ASSUME NEW i \in 1..(z - 1) PROVE Link(v[i - 1], stream[i], v[i])'
    <3>1. /\ i \in 0..(z - 1) /\ i - 1 \in 0..(z - 1) /\ (i - 1) + 1 = i
          /\ i + 1 \in 1..z /\ (i + 1) - 1 = i
      BY <1>1
    <3>2. v[i - 1] = views[i] /\ v[i] = views[i + 1] /\ stream'[i] = stream[i + 1]
          /\ Link(views[i], stream[i + 1], views[i + 1])
      BY <1>1, <1>3, <1>6, <3>1
    <3>. QED  BY <2>1, <3>2 DEF Link
  <2>4. Chain(v)'
    BY <1>1, <2>2, <2>3 DEF Chain
  <2>. QED  BY <1>1, <1>6, <2>4 DEF Linked
<1>. QED  BY <1>7, <1>8

(* Initially there are no documents. *)
LEMMA InitSynced ==
    ASSUME NEW T, Faithful(T), Init
    PROVE  Synced(T)
<1>1. Types /\ Owed
  BY InitTypes
<1>2. Len(stream) = 0 /\ documents = editor /\ editor = [u \in Uris |-> NoDoc]
  BY DEF Init
<1>3. PICK v : v = [i \in 0..0 |-> editor]
  OBVIOUS
<1>4. v[0] = editor /\ v \in [0..0 -> Copies(T)]
  BY <1>2, <1>3 DEF Copies
<1>5. Linked(T)
  BY <1>2, <1>4 DEF Linked, Chain
<1>6. Awaited /\ FormatsWhatWasAsked
  BY DEF Init, Awaited, FormatsWhatWasAsked, NoReply
<1>. QED  BY <1>1, <1>5, <1>6 DEF Synced

(* Every step keeps the chain: each notification is handled exactly once   *)
(* and in order, and none is handled while a document is being formatted.  *)
LEMMA SyncedStep ==
    ASSUME NEW T, Faithful(T), Synced(T), [Next]_vars
    PROVE  Synced(T)'
<1>s. Types /\ Owed /\ Linked(T) /\ Awaited /\ FormatsWhatWasAsked
  BY DEF Synced
<1>o. Types' /\ Owed'
  BY <1>s, OwedStep
<1>t. /\ count \in 0..MaxMessages /\ MaxMessages \in Nat /\ NoUri \notin Uris
      /\ Uris \subseteq Documented /\ Unnamed \in Documented
      /\ target \in [Requests -> Documented] /\ busy \in 0..count
      /\ DOMAIN reply = Requests /\ DOMAIN asked = Requests
      /\ Requests = 1..MaxMessages
  BY <1>s, FormatterAssumption DEF Types, Requests, Documented
<1>m. Refused = {"malformed", "unknown"} /\ Asked = {"formatting", "malformed", "unknown"}
  BY DEF Asked, Refused
<1>e. editor \in Copies(T) /\ documents \in Copies(T)
  <2>1. PICK z \in Nat : z = Len(stream)
    BY <1>s DEF Types
  <2>2. PICK views \in [0..z -> Copies(T)] : Chain(views)
    BY <1>s, <2>1 DEF Linked
  <2>3. views[0] = documents /\ views[z] = editor /\ 0 \in 0..z /\ z \in 0..z
    BY <2>1, <2>2 DEF Chain
  <2>. QED  BY <2>2, <2>3
<1>d. /\ NoDoc.open = FALSE
      /\ \A t : Doc(t).open = TRUE /\ Doc(t).text = t
  BY DEF NoDoc, Doc
<1>w. ASSUME NEW msg \in Sent, Write(msg), UNCHANGED <<serverVars, target, asked>>,
             NEW e \in Copies(T), e = editor', Link(editor, msg, e)
      PROVE  Synced(T)'
  <2>1. UNCHANGED <<documents, busy, reply, target, asked>> /\ stream' = Append(stream, msg)
    BY <1>w DEF serverVars, Write
  <2>2. PICK d : d = editor
    OBVIOUS
  <2>3. Link(d, msg, e)'
    BY <1>w, <2>1, <2>2 DEF Link
  <2>4. Linked(T)'
    <3>1. \A n \in 1..count : target'[n] = target[n] /\ asked'[n] = asked[n]
      BY <2>1
    <3>. QED  BY <1>s, <1>w, <2>1, <2>2, <2>3, <3>1, LinkedAppend
  <2>5. Awaited' /\ FormatsWhatWasAsked'
    BY <1>s, <2>1 DEF Awaited, FormatsWhatWasAsked
  <2>. QED  BY <1>o, <2>4, <2>5 DEF Synced
<1>1. ASSUME NEW u \in Uris, NEW t \in Texts, EditorOpens(u, t) PROVE Synced(T)'
  <2>1. PICK msg : msg = DidOpen(u, t)
    OBVIOUS
  <2>2. msg \in Sent /\ msg.method = "didOpen" /\ msg.uri = u /\ msg.changes[1].text = t
    <3>1. msg = [method |-> "didOpen", uri |-> u, changes |-> <<Replace(t)>>, id |-> 0]
      BY <2>1 DEF DidOpen
    <3>2. <<Replace(t)>> \in Notified /\ 0 \in 0..MaxMessages
      BY <1>t DEF Notified
    <3>3. Replace(t).text = t
      BY DEF Replace
    <3>. QED  BY <1>t, <3>1, <3>2, <3>3 DEF Sent, Methods
  <2>3. PICK e : e = [editor EXCEPT ![u] = Doc(t)]
    OBVIOUS
  <2>4. e \in Copies(T)
    BY <1>e, <2>3 DEF Faithful, Copies
  <2>5. Link(editor, msg, e)
    BY <1>m, <2>2, <2>3 DEF Link
  <2>. QED  BY <1>1, <1>w, <2>1, <2>2, <2>3, <2>4, <2>5 DEF EditorOpens
<1>2. ASSUME NEW u \in Uris, NEW c \in Changes, EditorChanges(u, c) PROVE Synced(T)'
  <2>1. PICK msg : msg = DidChange(u, c)
    OBVIOUS
  <2>2. msg \in Sent /\ msg.method = "didChange" /\ msg.uri = u /\ msg.changes = c
    BY <1>t, <2>1 DEF DidChange, Sent, Methods, Notified
  <2>3. PICK x : x = EditedBy(editor[u].text, c)
    OBVIOUS
  <2>4. PICK e : e = [editor EXCEPT ![u] = Doc(x)]
    OBVIOUS
  <2>5. editor[u].open /\ editor[u].text \in T
    BY <1>2, <1>d, <1>e DEF EditorChanges, Copies
  <2>6. x \in T /\ x = ApplyIncrementalChanges(editor[u].text, c)
    BY <2>3, <2>5 DEF Faithful
  <2>7. e \in Copies(T)
    BY <1>e, <2>4, <2>6 DEF Copies
  <2>8. Link(editor, msg, e)
    BY <1>m, <2>2, <2>4, <2>5, <2>6 DEF Link
  <2>9. e = editor'
    BY <1>2, <2>3, <2>4 DEF EditorChanges
  <2>. QED  BY <1>2, <1>w, <2>1, <2>2, <2>7, <2>8, <2>9 DEF EditorChanges
<1>3. ASSUME NEW u \in Uris, EditorCloses(u) PROVE Synced(T)'
  <2>1. PICK msg : msg = DidClose(u)
    OBVIOUS
  <2>2. msg \in Sent /\ msg.method = "didClose" /\ msg.uri = u
    BY <1>t, <2>1 DEF DidClose, Sent, Methods, Notified
  <2>3. PICK e : e = [editor EXCEPT ![u] = NoDoc]
    OBVIOUS
  <2>4. e \in Copies(T)
    BY <1>e, <2>3 DEF Copies
  <2>5. Link(editor, msg, e)
    BY <1>m, <2>2, <2>3 DEF Link
  <2>. QED  BY <1>3, <1>w, <2>1, <2>2, <2>3, <2>4, <2>5 DEF EditorCloses
<1>4. ASSUME NEW u \in Uris, EditorFormats(u) PROVE Synced(T)'
  <2>1. PICK msg : msg = Formatting(u, count + 1)
    OBVIOUS
  <2>2. /\ Write(msg) /\ count < MaxMessages /\ stream' = Append(stream, msg)
        /\ UNCHANGED <<editor, documents, busy, reply>>
        /\ target' = [target EXCEPT ![count + 1] = u]
        /\ asked' = [asked EXCEPT ![count + 1] = editor[u]]
    BY <1>4, <2>1 DEF EditorFormats, Write, serverVars
  <2>3. msg \in Sent /\ msg.method = "formatting" /\ msg.uri = u /\ msg.id = count + 1
    BY <1>m, <1>t, <2>1, <2>2 DEF Formatting, Sent, Methods, Notified
  <2>4. /\ count + 1 \in Requests /\ target'[count + 1] = u /\ asked'[count + 1] = editor[u]
        /\ \A n \in Requests : n # count + 1 => target'[n] = target[n] /\ asked'[n] = asked[n]
        /\ \A n \in 1..count : n \in Requests /\ n # count + 1
    BY <1>t, <2>2
  <2>5. PICK d \in Copies(T) : d = editor /\ d = editor'
    BY <1>e, <2>2
  <2>6. Link(d, msg, d)'
    BY <2>3, <2>4, <2>5 DEF Link
  <2>7. \A n \in 1..count : target'[n] = target[n] /\ asked'[n] = asked[n]
    BY <2>4
  <2>8. Linked(T)'
    BY <1>s, <2>2, <2>3, <2>5, <2>6, <2>7, LinkedAppend
  <2>9. Awaited'
    <3>1. busy # Idle => busy \in 1..count
      BY <1>t DEF Idle
    <3>. QED  BY <1>s, <2>2, <2>7, <3>1 DEF Awaited
  <2>10. FormatsWhatWasAsked'
    <3>1. ASSUME NEW n \in Requests, reply[n].kind = "edits" PROVE asked'[n] = asked[n]
      <4>1. reply[n] # NoReply
        BY <3>1 DEF NoReply
      <4>2. n # count + 1
        BY <1>s, <1>t, <4>1 DEF Types
      <4>. QED  BY <2>4, <4>2
    <3>. QED  BY <1>s, <2>2, <3>1 DEF FormatsWhatWasAsked
  <2>. QED  BY <1>o, <2>8, <2>9, <2>10 DEF Synced
<1>a. ASSUME NEW method \in Refused, EditorAsks(method) PROVE Synced(T)'
  <2>1. PICK msg : msg = Asking(method, count + 1)
    OBVIOUS
  <2>2. /\ Write(msg) /\ count < MaxMessages /\ stream' = Append(stream, msg)
        /\ UNCHANGED <<editor, asked, documents, busy, reply>>
        /\ target' = [target EXCEPT ![count + 1] = Unnamed]
    BY <1>a, <2>1 DEF EditorAsks, Write, serverVars
  <2>3. msg \in Sent /\ msg.method = method
    BY <1>a, <1>t, <2>1, <2>2 DEF Asking, Sent, Methods, Asked, Notified
  <2>4. \A n \in 1..count : target'[n] = target[n] /\ asked'[n] = asked[n]
    BY <1>t, <2>2
  <2>5. PICK d \in Copies(T) : d = editor /\ d = editor'
    BY <1>e, <2>2
  <2>6. Link(d, msg, d)'
    BY <1>a, <1>m, <2>3 DEF Link
  <2>7. Linked(T)'
    BY <1>s, <2>2, <2>3, <2>4, <2>5, <2>6, LinkedAppend
  <2>8. Awaited'
    <3>1. busy # Idle => busy \in 1..count
      BY <1>t DEF Idle
    <3>. QED  BY <1>s, <2>2, <2>4, <3>1 DEF Awaited
  <2>9. FormatsWhatWasAsked'
    BY <1>s, <2>2 DEF FormatsWhatWasAsked
  <2>. QED  BY <1>o, <2>7, <2>8, <2>9 DEF Synced
<1>5. ASSUME NEW n \in Requests, EditorCancels(n) PROVE Synced(T)'
  <2>1. PICK msg : msg = CancelRequest(n)
    OBVIOUS
  <2>2. msg \in Sent /\ msg.method = "cancel"
    BY <1>t, <2>1 DEF CancelRequest, Sent, Methods, Notified
  <2>3. PICK e \in Copies(T) : e = editor
    BY <1>e
  <2>4. Link(editor, msg, e) /\ e = editor'
    BY <1>5, <2>2, <2>3 DEF Link, EditorCancels
  <2>. QED  BY <1>5, <1>w, <2>1, <2>2, <2>3, <2>4 DEF EditorCancels
<1>h. ASSUME NEW method, Receive(method), UNCHANGED <<editorVars, busy, reply>>,
             \A e \in Copies(T) : Link(documents, stream[1], e) => documents' = e
      PROVE  Synced(T)'
  <2>1. Linked(T)'
    BY <1>h, <1>s, LinkedTail
  <2>2. Awaited' /\ FormatsWhatWasAsked'
    BY <1>h, <1>s DEF Awaited, FormatsWhatWasAsked, editorVars, Receive
  <2>. QED  BY <1>o, <2>1, <2>2 DEF Synced
<1>u. ASSUME NEW method, Receive(method), method \in {"didOpen", "didChange", "didClose"}
      PROVE  stream[1].uri \in Uris
  BY <1>s, <1>u, Taken DEF Types
<1>6. CASE HandleDidOpen
  <2>1. Receive("didOpen") /\ Head(stream) = stream[1] /\ stream[1].method = "didOpen"
        /\ UNCHANGED <<editorVars, busy, reply>>
    BY <1>6, <1>s, Taken DEF HandleDidOpen
  <2>2. \A e \in Copies(T) : Link(documents, stream[1], e) => documents' = e
    BY <1>6, <2>1 DEF HandleDidOpen, Link
  <2>. QED  BY <1>h, <2>1, <2>2
<1>7. CASE HandleDidChange
  <2>1. Receive("didChange") /\ Head(stream) = stream[1] /\ stream[1].method = "didChange"
        /\ UNCHANGED <<editorVars, busy, reply>> /\ stream[1].uri \in Uris
    BY <1>7, <1>s, <1>u, Taken DEF HandleDidChange
  <2>2. PICK m : m = stream[1]
    OBVIOUS
  <2>3. documents' = [documents EXCEPT ![m.uri] =
            IF documents[m.uri].open
              THEN Doc(ApplyIncrementalChanges(documents[m.uri].text, m.changes))
              ELSE documents[m.uri]]
    BY <1>7, <2>1, <2>2 DEF HandleDidChange
  <2>4. \A e \in Copies(T) : Link(documents, m, e) => documents' = e
    BY <2>1, <2>2, <2>3 DEF Link
  <2>. QED  BY <1>h, <2>1, <2>2, <2>4
<1>8. CASE HandleDidClose
  <2>1. Receive("didClose") /\ Head(stream) = stream[1] /\ stream[1].method = "didClose"
        /\ UNCHANGED <<editorVars, busy, reply>>
    BY <1>8, <1>s, Taken DEF HandleDidClose
  <2>2. \A e \in Copies(T) : Link(documents, stream[1], e) => documents' = e
    BY <1>8, <2>1 DEF HandleDidClose, Link
  <2>. QED  BY <1>h, <2>1, <2>2
<1>9. CASE HandleCancel
  <2>1. Receive("cancel") /\ stream[1].method = "cancel"
        /\ UNCHANGED <<editorVars, busy, reply>>
    BY <1>9, <1>s, Taken DEF HandleCancel
  <2>2. \A e \in Copies(T) : Link(documents, stream[1], e) => documents' = e
    BY <1>9, <2>1 DEF HandleCancel, Link
  <2>. QED  BY <1>h, <2>1, <2>2
<1>10. CASE HandleFormatting
  <2>1. Receive("formatting") /\ busy = Idle
        /\ UNCHANGED <<editor, count, target, asked, documents>> /\ UNCHANGED editorVars
    BY <1>10 DEF HandleFormatting, Receive, editorVars
  <2>2. PICK m \in Sent : m = stream[1] /\ m = Head(stream) /\ m.method = "formatting"
                        /\ 1 \in 1..Len(stream)
    BY <1>s, <2>1, Taken
  <2>3. PICK e \in Copies(T) : Link(documents, m, e) /\ (documents' = e => Linked(T)')
    BY <1>s, <2>1, <2>2, LinkedTail
  <2>4. e = documents /\ target[m.id] = m.uri /\ asked[m.id] = documents[m.uri]
    BY <2>2, <2>3 DEF Link
  <2>5. Linked(T)'
    BY <2>1, <2>3, <2>4
  <2>6. m.id \in 1..count /\ m.uri \in Uris /\ m.id \in Requests
    BY <1>m, <1>s, <1>t, <2>2 DEF Types
  <2>7. \/ documents[m.uri].open /\ busy' = m.id /\ UNCHANGED reply
        \/ reply' = [reply EXCEPT ![m.id] = Plain("notFound")] /\ UNCHANGED busy
    BY <1>10, <2>2 DEF HandleFormatting
  <2>8. Awaited'
    BY <2>1, <2>4, <2>6, <2>7 DEF Awaited
  <2>9. FormatsWhatWasAsked'
    <3>1. \A n \in Requests : reply'[n].kind = "edits" => reply'[n] = reply[n]
      BY <1>t, <2>6, <2>7 DEF Plain
    <3>. QED  BY <1>s, <2>1, <3>1 DEF FormatsWhatWasAsked
  <2>. QED  BY <1>o, <2>5, <2>8, <2>9 DEF Synced
<1>r. ASSUME NEW method \in Refused, NEW k, k # "edits", Refuse(method, k)
      PROVE  Synced(T)'
  <2>1. Receive(method) /\ UNCHANGED editorVars
        /\ UNCHANGED <<editor, count, target, asked, documents, busy>>
    BY <1>r DEF Refuse, editorVars
  <2>2. PICK m \in Sent : m = stream[1] /\ m = Head(stream) /\ m.method = method
                        /\ 1 \in 1..Len(stream)
    BY <1>s, <2>1, Taken
  <2>3. PICK e \in Copies(T) : Link(documents, m, e) /\ (documents' = e => Linked(T)')
    BY <1>s, <2>1, <2>2, LinkedTail
  <2>4. e = documents
    BY <1>r, <2>2, <2>3 DEF Link
  <2>5. Linked(T)'
    BY <2>1, <2>3, <2>4
  <2>6. m.id \in Requests
    BY <1>m, <1>r, <1>s, <1>t, <2>2 DEF Types
  <2>7. PICK new : new.kind # "edits" /\ reply' = [reply EXCEPT ![m.id] = new]
    BY <1>r, <2>2 DEF Refuse, Plain
  <2>8. Awaited'
    BY <1>s, <2>1 DEF Awaited
  <2>9. FormatsWhatWasAsked'
    <3>1. \A n \in Requests : reply'[n].kind = "edits" => reply'[n] = reply[n]
      BY <1>t, <2>6, <2>7
    <3>. QED  BY <1>s, <2>1, <3>1 DEF FormatsWhatWasAsked
  <2>. QED  BY <1>o, <2>5, <2>8, <2>9 DEF Synced
<1>b. CASE InvalidParams \/ MethodNotFound
  BY <1>b, <1>m, <1>r DEF InvalidParams, MethodNotFound
<1>11. CASE FormatDocument
  <2>0. PICK t : t = documents[target[busy]].text
    OBVIOUS
  <2>1. /\ busy # Idle /\ busy' = Idle
        /\ UNCHANGED <<editor, count, target, asked, stream, documents>>
        /\ reply' = [reply EXCEPT ![busy] =
               IF busy \in cancelled THEN Plain("cancelled")
               ELSE [kind |-> "edits", edits |-> CreateUppercaseEdit(t)]]
    BY <1>11, <2>0 DEF FormatDocument, editorVars
  <2>2. busy \in Requests /\ target[busy] \in Uris /\ documents[target[busy]] = asked[busy]
        /\ asked[busy].open
    BY <1>s, <1>t, <2>1 DEF Awaited, Idle
  <2>3. t \in T /\ asked[busy].text = t
    BY <1>d, <1>e, <2>0, <2>2 DEF Copies
  <2>4. EditedBy(t, CreateUppercaseEdit(t)) = ToUppercase(t)
    BY <2>3 DEF Faithful
  <2>5. FormatsWhatWasAsked'
    <3>1. ASSUME NEW n \in Requests, reply'[n].kind = "edits"
          PROVE  /\ asked[n].open
                 /\ EditedBy(asked[n].text, reply'[n].edits) = ToUppercase(asked[n].text)
      <4>1. CASE n # busy
        <5>1. reply'[n] = reply[n]
          BY <1>t, <2>1, <4>1
        <5>. QED  BY <1>s, <3>1, <5>1 DEF FormatsWhatWasAsked
      <4>2. CASE n = busy
        <5>1. reply'[n] = [kind |-> "edits", edits |-> CreateUppercaseEdit(t)]
          BY <1>t, <2>1, <2>2, <3>1, <4>2 DEF Plain
        <5>2. reply'[n].edits = CreateUppercaseEdit(t)
          BY <5>1
        <5>. QED  BY <2>2, <2>3, <2>4, <4>2, <5>2
      <4>. QED  BY <4>1, <4>2
    <3>. QED  BY <2>1, <3>1 DEF FormatsWhatWasAsked
  <2>6. Linked(T)'
    <3>1. UNCHANGED <<editor, target, asked, stream, documents>>
      BY <2>1
    <3>2. PICK views \in [0..Len(stream) -> Copies(T)] : Chain(views)
      BY <1>s DEF Linked
    <3>3. Chain(views)'
      BY <3>1, <3>2 DEF Chain, Link
    <3>. QED  BY <3>1, <3>2, <3>3 DEF Linked
  <2>7. Awaited'
    BY <2>1 DEF Awaited
  <2>. QED  BY <1>o, <2>5, <2>6, <2>7 DEF Synced
<1>12. CASE UNCHANGED vars
  <2>1. Linked(T)'
    BY <1>s, <1>12 DEF Linked, Chain, Link, vars, editorVars, serverVars
  <2>2. Awaited' /\ FormatsWhatWasAsked'
    BY <1>s, <1>12 DEF Awaited, FormatsWhatWasAsked, vars, editorVars, serverVars
  <2>. QED  BY <1>o, <2>1, <2>2 DEF Synced
<1>. QED
  BY <1>1, <1>2, <1>3, <1>4, <1>5, <1>6, <1>7, <1>8, <1>9, <1>10, <1>11, <1>12,
     <1>a, <1>b
     DEF Next, ServerStep

(* Server and editor have the same documents whenever no message is on its *)
(* way: the order in which the loop handles messages adds no error to the  *)
(* text arithmetic, for any number of documents, messages and changes.     *)
THEOREM CopiesAgree ==
    ASSUME NEW T, Faithful(T)
    PROVE  Spec => []InSync
<1>1. Init => Synced(T)
  BY InitSynced
<1>2. Synced(T) /\ [Next]_vars => Synced(T)'
  BY SyncedStep
<1>3. Synced(T) => InSync
  <2> SUFFICES ASSUME Synced(T), stream = <<>> PROVE documents = editor
    BY DEF InSync
  <2>1. Len(stream) = 0
    OBVIOUS
  <2>. QED  BY <2>1 DEF Synced, Linked, Chain
<1>. QED  BY <1>1, <1>2, <1>3, PTL DEF Spec

(* A response with edits, applied by the protocol's rules to the document  *)
(* as it was when formatting was requested, gives its uppercase form,      *)
(* although the editor may have sent changes since.                        *)
THEOREM FormattingFits ==
    ASSUME NEW T, Faithful(T)
    PROVE  Spec => []FormatsWhatWasAsked
<1>1. Init => Synced(T)
  BY InitSynced
<1>2. Synced(T) /\ [Next]_vars => Synced(T)'
  BY SyncedStep
<1>3. Synced(T) => FormatsWhatWasAsked
  BY DEF Synced
<1>. QED  BY <1>1, <1>2, <1>3, PTL DEF Spec
===========================================================================
