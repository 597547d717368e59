----------------------------- MODULE JavaBinding -----------------------------
(***************************************************************************)
(* The Java binding of the library (src/lib/bindings/java-binding): the     *)
(* client's calls go through BlackadderWrapper and a native function each   *)
(* to the library's singleton, and an Event of Java is a view on a native   *)
(* Event, whose memory is given back by freeNativeBuffer or by the          *)
(* finaliser, whichever comes first.                                        *)
(*                                                                          *)
(* Identifiers are sequences of segments of PURSUIT_ID_LEN bytes, options   *)
(* and data sequences of cells. What the library does with a call is        *)
(* modelled in Library.                                                     *)
(***************************************************************************)
LOCAL INSTANCE Integers
LOCAL INSTANCE Sequences
LOCAL INSTANCE FiniteSets

CONSTANTS
    JavaPlans,     \* the calls a program makes, in order
    JavaEvents     \* the events the node has for it, in order

VARIABLES
    javaPlan,      \* calls to make
    coming,        \* events to come
    ba,            \* the native object: "none", "open" or "deleted"
    closed,        \* BlackAdderClient.closed
    requested,     \* calls that reached the library
    expected,      \* those the program meant
    native,        \* native events, by address: [type, id, data, deletes]
    javaEvent,     \* Java events, by the address they map
    reading,       \* what the program read last: [ptr, name, offset, data]
    wild           \* the deleted object was used
javaVars == <<javaPlan, coming, ba, closed, requested, expected, native, javaEvent, reading, wild>>

Null == <<"null">>
\* PUBLISHED_DATA and PUBLISHED_DATA_iSUB carry data (Blackadder::getEventIntoBuf).
DataTypes == {104, 109}
EventTypes == 100..104

-----------------------------------------------------------------------------
(* The native functions.                                                   *)

\* The arrays are copied to strings, absent options are NULL of length 0.
jni(op, id, prefix, strat, opt, data) ==
    [op |-> op, id |-> id, prefix |-> prefix, strategy |-> strat,
     str_opt |-> IF opt = Null THEN <<>> ELSE opt, data |-> data]

c_publish_scope(scope, prefix, strat, opt) == jni("publish_scope", scope, prefix, strat, opt, <<>>)
c_publish_item(rid, sid, strat, opt) == jni("publish_info", rid, sid, strat, opt, <<>>)
c_unpublish_scope(scope, prefix, strat, opt) == jni("unpublish_scope", scope, prefix, strat, opt, <<>>)
c_unpublish_item(rid, sid, strat, opt) == jni("unpublish_info", rid, sid, strat, opt, <<>>)
c_subscribe_scope(scope, prefix, strat, opt) == jni("subscribe_scope", scope, prefix, strat, opt, <<>>)
c_subscribe_item(rid, sid, strat, opt) == jni("subscribe_info", rid, sid, strat, opt, <<>>)
c_unsubscribe_scope(scope, prefix, strat, opt) == jni("unsubscribe_scope", scope, prefix, strat, opt, <<>>)
c_unsubscribe_item(rid, sid, strat, opt) == jni("unsubscribe_info", rid, sid, strat, opt, <<>>)
c_publish_data(name, strat, opt, data) == jni("publish_data", name, <<>>, strat, opt, data)
\* A direct buffer is published from its first byte, as long as it is capable of.
c_publish_data_direct(name, strat, opt, buffer) == jni("publish_data", name, <<>>, strat, opt, buffer.bytes)

\* EventType.getById knows the five types of a plain subscriber and publisher.
getById(type) == IF type \in EventTypes THEN type ELSE 0

-----------------------------------------------------------------------------
(* BlackAdderClient.                                                       *)

\* ScopeID.toByteArray, and the empty array of an absent one
bytesOf(scope) == IF scope = Null THEN <<>> ELSE scope
\* ItemName.toByteArray
nameBytes(c) == bytesOf(c.scope) \o bytesOf(c.rid)
\* ItemName.parseSerializedName
parseSerializedName(array) ==
    [scope |-> SubSeq(array, 1, Len(array) - 1), rid |-> SubSeq(array, Len(array), Len(array))]
optionBytes(c) == IF c.options # Null /\ Len(c.options) > 0 THEN c.options ELSE Null

publishScope(c) == c_publish_scope(bytesOf(c.scope), bytesOf(c.prefix), c.strategy, optionBytes(c))
republishScope(c) == c_publish_scope(bytesOf(c.scope), bytesOf(c.prefix), c.strategy, optionBytes(c))
publishItem(c) == c_publish_item(bytesOf(c.rid), bytesOf(c.scope), c.strategy, optionBytes(c))
republishItem(c) == c_publish_item(nameBytes(c), bytesOf(c.prefix), c.strategy, optionBytes(c))
unpublishScope(c) == c_unpublish_scope(bytesOf(c.scope), bytesOf(c.prefix), c.strategy, optionBytes(c))
unpublishItem(c) == c_unpublish_item(bytesOf(c.rid), bytesOf(c.scope), c.strategy, optionBytes(c))
subscribeScope(c) == c_subscribe_scope(bytesOf(c.scope), bytesOf(c.prefix), c.strategy, optionBytes(c))
subscribeItem(c) == c_subscribe_item(bytesOf(c.rid), bytesOf(c.scope), c.strategy, optionBytes(c))
unsubscribeScope(c) == c_unsubscribe_scope(bytesOf(c.scope), bytesOf(c.prefix), c.strategy, optionBytes(c))
unsubscribeItem(c) == c_unsubscribe_item(bytesOf(c.rid), bytesOf(c.scope), c.strategy, optionBytes(c))
publishData(c) == c_publish_data(nameBytes(c), c.strategy, optionBytes(c), c.data)
publishDirect(c) == c_publish_data_direct(nameBytes(c), c.strategy, optionBytes(c), [bytes |-> c.data])

\* Util.checkNull: the calls that name an item want both of its parts.
refused(c) ==
    \/ c.op \in {"republishItem", "unpublishItem", "subscribeItem", "unsubscribeItem", "publishData"}
       /\ Null \in {c.rid, c.scope}
    \/ c.op \in {"republishScope", "republishItem"} /\ Null \in {c.scope, c.prefix}

sent(c) ==
    CASE c.op = "publishScope" -> publishScope(c)         [] c.op = "republishScope" -> republishScope(c)
      [] c.op = "publishItem" -> publishItem(c)           [] c.op = "republishItem" -> republishItem(c)
      [] c.op = "unpublishScope" -> unpublishScope(c)     [] c.op = "unpublishItem" -> unpublishItem(c)
      [] c.op = "subscribeScope" -> subscribeScope(c)     [] c.op = "subscribeItem" -> subscribeItem(c)
      [] c.op = "unsubscribeScope" -> unsubscribeScope(c) [] c.op = "unsubscribeItem" -> unsubscribeItem(c)
      [] c.op = "publishData" -> publishData(c)           [] c.op = "publishDirect" -> publishDirect(c)

-----------------------------------------------------------------------------
\* What a call asks of the library, whatever its form: an identifier put below
\* a prefix, or data under a full name.
wanted(c) ==
    LET item == c.op \in {"publishItem", "unpublishItem", "subscribeItem", "unsubscribeItem"}
        data == c.op \in {"publishData", "publishDirect"}
    IN [path |-> IF item \/ data THEN bytesOf(c.scope) \o bytesOf(c.rid)
                 ELSE IF c.op = "republishItem" THEN bytesOf(c.prefix) \o nameBytes(c)
                 ELSE bytesOf(c.prefix) \o bytesOf(c.scope),
        strategy |-> c.strategy, data |-> c.data, options |-> bytesOf(c.options)]

JavaInit ==
    /\ javaPlan \in JavaPlans /\ coming = JavaEvents
    /\ ba = "none" /\ closed = FALSE /\ wild = FALSE
    /\ requested = <<>> /\ expected = <<>>
    /\ native = <<>> /\ javaEvent = <<>> /\ reading = <<>>

\* getInstance, with the wrapper's constructor and create_new_ba: singletons that
\* are not made anew after disconnect.
GetInstance ==
    /\ ba = "none"
    /\ ba' = "open"
    /\ UNCHANGED <<javaPlan, coming, closed, requested, expected, native, javaEvent, reading, wild>>

Call ==
    /\ javaPlan # <<>> /\ ba = "open" /\ ~wild
    /\ javaPlan' = Tail(javaPlan)
    /\ IF refused(Head(javaPlan)) THEN UNCHANGED <<requested, expected>>
       ELSE /\ requested' = Append(requested, sent(Head(javaPlan)))
            /\ expected' = Append(expected, wanted(Head(javaPlan)))
    /\ UNCHANGED <<coming, ba, closed, native, javaEvent, reading, wild>>

\* A call on the singleton after disconnect goes to the deleted object.
CallDeleted ==
    /\ ba = "deleted" /\ javaPlan # <<>> /\ ~wild
    /\ wild' = TRUE
    /\ UNCHANGED <<javaPlan, coming, ba, closed, requested, expected, native, javaEvent, reading>>

\* getNextEventDirect: a new native Event, which getEvent fills; Java gets a copy
\* of its type and identifier, and a buffer over its data.
getNextEvent ==
    /\ coming # <<>> /\ ba = "open" /\ ~wild
    /\ LET e == Head(coming)
       IN /\ native' = Append(native, [type |-> e.type, id |-> e.id,
                                       data |-> IF e.type \in DataTypes THEN e.data ELSE <<>>, deletes |-> 0])
          /\ javaEvent' = Append(javaEvent, [type |-> getById(e.type), id |-> e.id, freed |-> FALSE, reachable |-> TRUE,
                                             length |-> IF e.type \in DataTypes THEN Len(e.data) ELSE 0])
    /\ coming' = Tail(coming)
    /\ UNCHANGED <<javaPlan, ba, closed, requested, expected, reading, wild>>

\* getData, getDataCopy, writeTo, getByte: refused for a freed event.
getData(p) ==
    /\ javaEvent[p].reachable /\ ~javaEvent[p].freed /\ javaEvent[p].id # <<>>
    /\ \E offset, length \in 0..javaEvent[p].length :
          /\ offset + length <= javaEvent[p].length
          /\ reading' =
                <<[ptr |-> p, name |-> parseSerializedName(javaEvent[p].id), offset |-> offset,
                  data |-> IF native[p].deletes = 0 THEN SubSeq(native[p].data, offset + 1, offset + length)
                           ELSE Null]>>
    /\ UNCHANGED <<javaPlan, coming, ba, closed, requested, expected, native, javaEvent, wild>>

BadfreeNativeBuffer(p) ==
    /\ native' = [native EXCEPT ![p].deletes = @ + 1]
    /\ javaEvent' = [javaEvent EXCEPT ![p].id = <<>>, ![p].length = 0]
\* Event.freeNativeBuffer, with c_delete_event.
freeNativeBuffer(p) ==
    IF javaEvent[p].freed THEN UNCHANGED <<native, javaEvent>>
    ELSE /\ native' = [native EXCEPT ![p].deletes = @ + 1]
         /\ javaEvent' = [javaEvent EXCEPT ![p].freed = TRUE, ![p].id = <<>>, ![p].length = 0]

FreeEvent(p) ==
    /\ javaEvent[p].reachable
    /\ freeNativeBuffer(p)
    /\ UNCHANGED <<javaPlan, coming, ba, closed, requested, expected, reading, wild>>
\* The program lets go of the event; the collector finalises it later.
Drop(p) ==
    /\ javaEvent[p].reachable
    /\ javaEvent' = [javaEvent EXCEPT ![p].reachable = FALSE]
    /\ UNCHANGED <<javaPlan, coming, ba, closed, requested, expected, native, reading, wild>>
finalize(p) ==
    /\ ~javaEvent[p].reachable
    /\ freeNativeBuffer(p)
    /\ UNCHANGED <<javaPlan, coming, ba, closed, requested, expected, reading, wild>>

\* disconnect, the wrapper's close and delete_ba: the second call does nothing.
javaDisconnect ==
    /\ ba # "none"
    /\ closed' = TRUE
    /\ ba' = IF closed THEN ba ELSE "deleted"
    /\ UNCHANGED <<javaPlan, coming, requested, expected, native, javaEvent, reading, wild>>

JavaNext ==
    \/ GetInstance \/ Call \/ CallDeleted \/ getNextEvent \/ javaDisconnect
    \/ \E p \in DOMAIN javaEvent : getData(p) \/ FreeEvent(p) \/ Drop(p) \/ finalize(p)
JavaSpec == JavaInit /\ [][JavaNext]_javaVars

-----------------------------------------------------------------------------
\* A program sees its library through the binding: what it reads of an event is
\* what the library delivered, never memory that was given back, also after
\* disconnect; every native event is deleted at most once, by the program or by
\* the finaliser; and every call reaches the library with the path, strategy,
\* options and data it named (Event.java freeNativeBuffer and getData,
\* BlackAdderClient.java and its native functions).
EventsOwned ==
    /\ \A p \in DOMAIN native : native[p].deletes <= 1
    /\ \A i \in DOMAIN reading :
          LET r == reading[i] IN
          /\ r.name.scope \o r.name.rid = native[r.ptr].id
          /\ r.data = SubSeq(native[r.ptr].data, r.offset + 1, r.offset + Len(r.data))
    /\ \A i \in DOMAIN requested :
          LET q == requested[i] IN
          /\ q.prefix \o q.id = expected[i].path /\ q.strategy = expected[i].strategy
          /\ q.data = expected[i].data /\ q.str_opt = expected[i].options
=============================================================================
