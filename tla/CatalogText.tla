------------------------------ MODULE CatalogText ------------------------------
(***************************************************************************)
(* From the body of a MESSAGE to the event SipContact.tla starts from: the *)
(* parser of tinyxml builds a tree, in which getTypeContent, getRootNode   *)
(* and getDeviceChannels look for what the event loop wants to know.  None *)
(* of them asks the parser whether it met an error, so a damaged message   *)
(* is read as far as its tree goes.                                        *)
(*                                                                         *)
(* A body is a sequence of pieces: tags, texts and the rest of XML, which  *)
(* is read over.  White space, attributes and entities are left out.  The  *)
(* parser is one step per piece; stack holds the calls of its recursive    *)
(* descent, as the nodes they work on, from the document inwards.  The     *)
(* helpers parse the same text again and again: here it is parsed once.    *)
(*                                                                         *)
(* External: what devices send, and what may happen to it on the way.      *)
(***************************************************************************)
EXTENDS Naturals, SequencesExt

CONSTANTS MaxItems,  \* bound: channels in one message
          NoText     \* what GetText returns for an element without text

(* The texts a message may have.                                            *)
Texts == [item : Nat, cut : BOOLEAN,
          field : {"CmdType", "DeviceID", "Name", "Kind", "plain", ""}]

ASSUME TextAssumption == NoText \notin Texts

VARIABLES message,  \* what the device meant to say
          damage,   \* what happened to it
          body,     \* the pieces not read yet; empty after an error, too
          stack,    \* nodes being parsed
          status,   \* "parsing", "parsed", "done" or "crashed"
          event     \* what the event loop makes of the message

vars == <<message, damage, body, stack, status, event>>

-----------------------------------------------------------------------------
(* Bodies (external). *)

(* The text of an element of item k, 0: of the head; a cut text is a part.  *)
Value(k, field) == [item |-> k, field |-> field, cut |-> FALSE]
NoValue == [item |-> 0, field |-> "", cut |-> FALSE]

Piece(is, of) == [is |-> is, of |-> of, cut |-> FALSE]
Misc == Piece("misc", "")
Leaf(k, name) == <<Piece("start", name), Piece("text", Value(k, name)), Piece("end", name)>>
Group(name, inside) == <<Piece("start", name)>> \o inside \o <<Piece("end", name)>>

(* The ways in which devices write a channel. *)
ItemLayouts == {"plain", "nameFirst", "nested", "unnamed"}

Item(k, layout) == Group("Item",
    CASE layout = "plain" -> Leaf(k, "DeviceID") \o Leaf(k, "Name")
      [] layout = "nameFirst" -> Leaf(k, "Name") \o <<Misc>> \o Leaf(k, "DeviceID")
      [] layout = "nested" -> Leaf(k, "DeviceID") \o Group("Info", Leaf(k, "Kind")) \o Leaf(k, "Name")
      [] layout = "unnamed" -> Leaf(k, "DeviceID") \o <<Piece("empty", "Name")>>)

(* The fields of that channel, as the device means them. *)
FieldsOf(k, layout) ==
    [field \in {"DeviceID", "Name"} |->
        IF field = "Name" /\ layout = "unnamed" THEN NoValue ELSE Value(k, field)]

Messages ==
    [root : {"Response"}, cmd : {"Catalog"}, idLast : BOOLEAN, items : SeqOf(ItemLayouts, MaxItems)]
    \cup [root : {"Notify"}, cmd : {"Catalog", "Keepalive", "Alarm", "empty"}, idLast : {FALSE},
          items : {<<>>}]
    \cup [root : {"none", "noBody"}, cmd : {"none"}, idLast : {FALSE}, items : {<<>>}]

Command(m) == IF m.cmd = "empty" THEN <<Piece("empty", "CmdType")>> ELSE Leaf(0, "CmdType")

DeviceList(m) == Group("DeviceList", FlattenSeq([k \in DOMAIN m.items |-> Item(k, m.items[k])]))

(* No XML at all, and no body.                                              *)
Body(m) ==
    IF m.root = "noBody" THEN <<>>
    ELSE IF m.root = "none" THEN <<Piece("text", Value(0, "plain"))>>
    ELSE <<Misc>> \o Group(m.root,
             Command(m) \o IF m.idLast THEN DeviceList(m) \o Leaf(0, "DeviceID")
                           ELSE Leaf(0, "DeviceID") \o DeviceList(m))

(* A message arrives whole, ends too early, behind its piece at or within   *)
(* it, or was written without one of its tags.                              *)
Damages(text) == [kind : {"none"}, at : {0}]
                 \cup [kind : {"ends"}, at : 0..(Len(text) - 1)]
                 \cup [kind : {"cut"}, at : DOMAIN text]
                 \cup [kind : {"untagged"}, at : {k \in DOMAIN text : text[k].is \in {"start", "end"}}]

CutPiece(piece) ==
    [piece EXCEPT !.cut = TRUE, !.of = IF piece.is = "text" THEN [@ EXCEPT !.cut = TRUE] ELSE @]

Arrived(text, d) ==
    CASE d.kind = "none" -> text
      [] d.kind = "ends" -> SubSeq(text, 1, d.at)
      [] d.kind = "cut" -> Append(SubSeq(text, 1, d.at - 1), CutPiece(text[d.at]))
      [] d.kind = "untagged" -> RemoveAt(text, d.at)

-----------------------------------------------------------------------------
(* tinyxml: the parser. *)

NoEvent == [kind |-> "none", dev |-> NoValue, list |-> <<>>]

Node(is, of) == [is |-> is, of |-> of, kids |-> <<>>]

Init == /\ message \in Messages
        /\ damage \in Damages(Body(message))
        /\ body = Arrived(Body(message), damage)
        /\ stack = <<Node("document", "")>>
        /\ status = "parsing"
        /\ event = NoEvent

Now == Head(body)
Reading(kind) == status = "parsing" /\ body # <<>> /\ Now.is = kind
InElement == Len(stack) > 1

WithKid(nodes, kid) == [nodes EXCEPT ![Len(nodes)].kids = Append(@, kid)]

LinkEndChild(kid) == stack' = WithKid(stack, kid)

GoOn == body' = Tail(body) /\ UNCHANGED <<message, damage, status, event>>
Fail == body' = <<>> /\ UNCHANGED <<message, damage, status, event>>

(* Declarations, comments and what tinyxml does not know; outside of the    *)
(* elements an end tag is such a thing.                                     *)
ReadOver ==
    /\ Reading("misc") \/ (Reading("end") /\ ~InElement)
    /\ LinkEndChild(Node("misc", ""))
    /\ GoOn

(* Identify finds nothing in a text outside of the elements. *)
StopAtText ==
    /\ Reading("text") /\ ~InElement
    /\ Fail
    /\ UNCHANGED stack

(* A text that the end of the body cuts is linked as well. *)
ReadText ==
    /\ Reading("text") /\ InElement
    /\ LinkEndChild(Node("text", Now.of))
    /\ GoOn

StartElement ==
    /\ Reading("start") /\ ~Now.cut
    /\ stack' = Append(stack, Node("element", Now.of))
    /\ GoOn

ReadEmptyElement ==
    /\ Reading("empty") /\ ~Now.cut
    /\ LinkEndChild(Node("element", Now.of))
    /\ GoOn

(* A start tag that ends too early: an error, but the node is linked.  That *)
(* is an element if the tag ends in its name or behind it, and right behind *)
(* its '<' what tinyxml does not know.                                      *)
CutStartTag ==
    /\ Reading("start") \/ Reading("empty")
    /\ Now.cut
    /\ \E node \in {Node("element", Now.of), Node("element", "part of a name"), Node("misc", "")} :
          LinkEndChild(node)
    /\ Fail

Return == stack' = WithKid(Front(stack), Last(stack))

EndElement ==
    /\ Reading("end") /\ InElement
    /\ Now.of = Last(stack).of /\ ~Now.cut
    /\ Return
    /\ GoOn

(* Mutation variant: the end tag of another element is read over. *)
EndTagErrorSkips ==
    /\ Reading("end") /\ InElement
    /\ Now.of # Last(stack).of \/ Now.cut
    /\ GoOn
    /\ UNCHANGED stack

(* The unknown node that the '<' alone of an end tag becomes is left out: no *)
(* helper looks at anything but elements and the first text.                *)
EndTagError ==
    /\ Reading("end") /\ InElement
    /\ Now.of # Last(stack).of \/ Now.cut
    /\ Fail
    /\ UNCHANGED stack

(* At an error or at the end of the body every call returns null, and its   *)
(* caller links the node all the same.                                      *)
ReturnNull ==
    /\ status = "parsing" /\ body = <<>> /\ InElement
    /\ Return
    /\ UNCHANGED <<message, damage, body, status, event>>

DocumentEnds ==
    /\ status = "parsing" /\ body = <<>> /\ ~InElement
    /\ status' = "parsed"
    /\ UNCHANGED <<message, damage, body, stack, event>>

Parse == \/ ReadOver \/ StopAtText \/ ReadText \/ StartElement \/ ReadEmptyElement
         \/ CutStartTag \/ EndElement \/ EndTagError \/ ReturnNull \/ DocumentEnds

-----------------------------------------------------------------------------
(* What the event loop looks for. *)

(* The elements of a sequence at the places picked, in their order.         *)
Picked(s, places) == FlattenSeq([i \in DOMAIN s |-> IF i \in places THEN <<s[i]>> ELSE <<>>])

Elements(node) == Picked(node.kids, {i \in DOMAIN node.kids : node.kids[i].is = "element"})
Named(node, name) ==
    Picked(Elements(node), {i \in DOMAIN Elements(node) : Elements(node)[i].of = name})

(* The text an element begins with. *)
GetText(e) == IF e.kids # <<>> /\ e.kids[1].is = "text" THEN e.kids[1].of ELSE NoText

Roots == Elements(stack[1])
RootElement == Roots[1]

(* The first child of the root of this type: none, or its text. *)
GetTypeContent(type) ==
    LET found == Named(RootElement, type)
    IN IF found = <<>> THEN NoValue ELSE GetText(found[1])

(* Mutation variant: an element with elements in it ends the channel. *)
InfosToNested(item) ==
    LET nested == SelectInSeq(Elements(item), LAMBDA n : Elements(n) # <<>>)
    IN IF nested = 0 THEN Elements(item) ELSE SubSeq(Elements(item), 1, nested - 1)

(* The elements of a channel that have no elements in them. *)
Infos(item) ==
    Picked(Elements(item), {i \in DOMAIN Elements(item) : Elements(Elements(item)[i]) = <<>>})

TextOf(info) == IF GetText(info) = NoText THEN NoValue ELSE GetText(info)

(* The last element of a name counts. *)
FieldMap(item) ==
    LET infos == Infos(item)
    IN [key \in {infos[i].of : i \in DOMAIN infos} |->
           TextOf(infos[SelectLastInSeq(infos, LAMBDA n : n.of = key)])]

Items == LET lists == Named(RootElement, "DeviceList")
         IN IF lists = <<>> THEN <<>> ELSE Named(lists[1], "Item")

GetDeviceChannels ==
    LET maps == [k \in DOMAIN Items |-> FieldMap(Items[k])]
    IN Picked(maps, {k \in DOMAIN maps : DOMAIN maps[k] # {}})

Cmd == IF GetTypeContent("CmdType") = Value(0, "CmdType") THEN message.cmd ELSE "other"

Kind == CASE Cmd = "Catalog" /\ RootElement.of = "Response" -> "Catalog"
          [] Cmd = "Keepalive" -> "Keepalive"
          [] OTHER -> "otherMessage"

(* A null pointer in place of the body, the root or a text is not tested    *)
(* for; a body that is not there is like one without a root.                *)
NullRoot == Roots = <<>>
NullText == \/ GetTypeContent("CmdType") = NoText
            \/ Kind # "otherMessage" /\ GetTypeContent("DeviceID") = NoText

Readable == status = "parsed" /\ ~NullRoot /\ ~NullText

Conclude(result) == /\ status' = result
                    /\ UNCHANGED <<message, damage, body, stack>>

Crash == /\ status = "parsed"
         /\ NullRoot \/ (~NullRoot /\ NullText)
         /\ Conclude("crashed")
         /\ UNCHANGED event

Report(list) == event' = [kind |-> Kind, list |-> list,
                          dev |-> IF Kind = "otherMessage" THEN NoValue
                                  ELSE GetTypeContent("DeviceID")]

(* Mutation variant: the text of a field is not tested for null either. *)
ReadCatalogUntested ==
    /\ Readable /\ Kind = "Catalog"
    /\ IF \E k \in DOMAIN Items : \E i \in DOMAIN Infos(Items[k]) :
              GetText(Infos(Items[k])[i]) = NoText
       THEN Conclude("crashed") /\ UNCHANGED event
       ELSE Conclude("done") /\ Report(GetDeviceChannels)

ReadCatalog == /\ Readable /\ Kind = "Catalog"
               /\ Conclude("done")
               /\ Report(GetDeviceChannels)

ReadOther == /\ Readable /\ Kind # "Catalog"
             /\ Conclude("done")
             /\ Report(<<>>)

(* The event loop is through with the message, or dead. *)
Ended == status \in {"done", "crashed"} /\ UNCHANGED vars

Next == Parse \/ Crash \/ ReadCatalog \/ ReadOther \/ Ended

Spec == Init /\ [][Next]_vars

-----------------------------------------------------------------------------
(* Properties. *)

(* A message that arrives as it was sent is understood as it was meant, in  *)
(* whatever order and depth its author writes the fields.                   *)
Meant(m) ==
    IF m.root = "Response" /\ m.cmd = "Catalog"
    THEN [kind |-> "Catalog", dev |-> Value(0, "DeviceID"),
          list |-> [k \in DOMAIN m.items |-> FieldsOf(k, m.items[k])]]
    ELSE IF m.cmd = "Keepalive"
    THEN [kind |-> "Keepalive", dev |-> Value(0, "DeviceID"), list |-> <<>>]
    ELSE [kind |-> "otherMessage", dev |-> NoValue, list |-> <<>>]

WholeMessageRead == status = "done" /\ damage.kind = "none" => event = Meant(message)

(* Although no one asks for the parser's error, a damaged catalog never     *)
(* mixes channels up: what is found are its first channels, complete but    *)
(* for the last one, whose id or name may lack or be a part.                *)
Found(k) == event.list[k]

DamageOnlyShortens ==
    event.list # <<>> =>
        LET last == Len(event.list)
        IN /\ last <= Len(message.items)
           /\ \A k \in 1..(last - 1) : Found(k) = FieldsOf(k, message.items[k])
           /\ \A key \in DOMAIN Found(last) \cap {"DeviceID", "Name"} :
                 LET value == Found(last)[key]
                 IN value = NoValue \/ (value.item = last /\ value.field = key)

(* The client crashes only where there is no root element, in a message     *)
(* without a body, without XML or that ends before the first letter of the  *)
(* root's name, and where it has no text to read the command or the device  *)
(* from, in a message written so or one that ends just there.               *)
EndsBehind(k, name) ==
    damage.kind \in {"ends", "cut"} /\ damage.at = k /\ Body(message)[k] = Piece("start", name)

CrashOnlyInHead ==
    status = "crashed" =>
        \/ message.root \in {"none", "noBody"} \/ message.cmd = "empty"
        \/ damage.kind = "ends" /\ damage.at <= 1
        \/ damage.kind = "cut" /\ damage.at <= 2
        \/ \E k \in DOMAIN Body(message), name \in {"CmdType", "DeviceID"} :
              EndsBehind(k, name) /\ Body(message)[k + 1].of.item = 0

=============================================================================
