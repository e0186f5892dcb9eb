-------------------------- MODULE CloudProperties ---------------------------
(***************************************************************************)
(* The properties of an ArduinoCloudThing: what writeProperty(), push() and *)
(* the callback do with the copies that the things keep of a value, and     *)
(* with the messages about it.                                             *)
(*                                                                         *)
(* The model follows one property, as the code treats each on its own: the  *)
(* thing "owner" has it from addProperty(), the thing "mirror" from         *)
(* addExternalProperty(), and a dashboard may set it too.  That a connected *)
(* thing is subscribed is shown in CloudSession.                            *)
(***************************************************************************)
EXTENDS Integers, Sequences

CONSTANTS
  Values,       \* the values that are written; 0 is the empty string
  ClockMod,     \* millis() counts modulo ClockMod (2^32 ms on the boards)
  Lapse,        \* the lapse of a property that was given one
  MessageCap    \* bound: messages are sent only while fewer are under way

ASSUME PropertiesAssumption ==
  /\ 0 \notin Values /\ ClockMod \in Nat \ {0}
  /\ Lapse \in Nat \ {0} /\ 2 * Lapse <= ClockMod
  /\ MessageCap \in Nat

Things == {"owner", "mirror"}
Texts  == Values \cup {0}

VARIABLES
  permission, policy, lapse,           \* of the owner's property; set in setup()
  measured,                 \* what the owner's program has to write
  value,                    \* the copy of every thing
  age,                      \* millis() - runtime
  online,                   \* is the thing connected and subscribed?
  outbox, inbox,            \* messages under way, from the owner and to the things
  last,                     \* the message that the broker saw last
  missed,                   \* history: the things that miss the last message
  since                     \* history: the time since the last publication, up to Lapse

config  == <<permission, policy, lapse>>
propertyVars == <<config, measured, value, age, online, outbox, inbox, last, missed, since>>

PropertiesTypeOK ==
  /\ permission \in {"R", "RW"} /\ policy \in {"", "on_change", "timed"}
  /\ lapse \in {0, Lapse}
  /\ measured \in Values /\ value \in [Things -> Texts]
  /\ age \in 0..(ClockMod - 1) /\ since \in 0..Lapse
  /\ online \in [Things -> BOOLEAN]
  /\ outbox \in Seq(Texts) /\ inbox \in [Things -> Seq(Texts)]
  /\ last \in Texts /\ missed \subseteq Things

\* addProperty() takes a permission, or also a policy, or also a lapse.
PropertiesInit ==
  /\ permission \in {"R", "RW"}
  /\ \/ policy = "" /\ lapse = 0
     \/ policy = "on_change" /\ lapse \in {0, Lapse}
     \/ policy = "timed" /\ lapse = Lapse
  /\ measured \in Values
  /\ value = [t \in Things |-> 0]
  /\ age = 0 /\ since = 0
  /\ online = [t \in Things |-> FALSE]
  /\ outbox = <<>> /\ inbox = [t \in Things |-> <<>>]
  /\ last = 0 /\ missed = {}

Quiet == outbox = <<>> /\ \A t \in Things : inbox[t] = <<>>
Room  == Len(outbox) + Len(inbox["owner"]) < MessageCap /\ Len(inbox["mirror"]) < MessageCap

-----------------------------------------------------------------------------
(* The owner's program                                                     *)

\* (long)(millis() - runtime): from half of the range on it is negative.
Elapsed == IF 2 * age < ClockMod THEN age ELSE age - ClockMod

\* Mutant: the lapse is not looked at.
Mut_Due == Elapsed >= 0
Due == Elapsed >= lapse

\* publish(): without a session the message is dropped, and nobody is told.
publishValue(v) ==
  /\ outbox' = IF online["owner"] THEN Append(outbox, v) ELSE outbox
  /\ missed' = IF online["owner"] THEN missed ELSE missed \cup {"owner"}

\* Mutant: every property is written on a change only.
Mut_Unchanged == value["owner"] = measured
Unchanged == value["owner"] = measured /\ policy = "on_change"

\* writeProperty() of the measured value, when it gets past its early returns.
Published ==
  /\ ~Unchanged /\ Due
  /\ value' = [value EXCEPT !["owner"] = measured]
  /\ publishValue(measured)
  /\ age' = 0 /\ since' = 0
  /\ UNCHANGED <<config, measured, online, inbox, last>>

writeProperty == Room /\ Published

\* push() sends the value again, whatever its policy says.
push ==
  /\ Room
  /\ publishValue(value["owner"])
  /\ UNCHANGED <<config, measured, value, age, online, inbox, last, since>>

Measure ==
  /\ measured' \in Values
  /\ UNCHANGED <<config, value, age, online, outbox, inbox, last, missed, since>>

-----------------------------------------------------------------------------
(* Messages                                                                *)

\* Mutant: only properties of other things are subscribed to.
Mut_Subscribers == {"mirror"}

\* mqttSubscribe(): what has permission RW, and that is every external property.
Subscribers == IF permission = "RW" THEN Things ELSE {"mirror"}

\* The broker passes a message on to all subscribers that it reaches.
Broadcast(v) ==
  LET reached == {t \in Subscribers : online[t]} IN
  /\ last' = v
  /\ inbox' = [t \in Things |-> IF t \in reached THEN Append(inbox[t], v) ELSE inbox[t]]
  /\ missed' = {t \in Things : ~online[t]}

Forward ==
  /\ outbox # <<>>
  /\ Broadcast(Head(outbox))
  /\ outbox' = Tail(outbox)
  /\ UNCHANGED <<config, measured, value, age, online, since>>

\* The dashboard sets a property that other things may write.
Dashboard ==
  /\ permission = "RW" /\ Room
  /\ \E v \in Values : Broadcast(v)
  /\ UNCHANGED <<config, measured, value, age, online, outbox, since>>

\* callback(), called out of poll(): updatePropertyFromTopic() stores the text.
callback(t) ==
  /\ inbox[t] # <<>>
  /\ value' = [value EXCEPT ![t] = Head(inbox[t])]
  /\ inbox' = [inbox EXCEPT ![t] = Tail(@)]
  /\ UNCHANGED <<config, measured, age, online, outbox, last, missed, since>>

\* The connection of a thing is lost with all that is under way on it.
Disconnect(t) ==
  /\ online[t]
  /\ online' = [online EXCEPT ![t] = FALSE]
  /\ inbox' = [inbox EXCEPT ![t] = <<>>]
  /\ outbox' = IF t = "owner" THEN <<>> ELSE outbox
  /\ missed' = IF inbox'[t] = inbox[t] /\ outbox' = outbox THEN missed
               ELSE missed \cup {t}
  /\ UNCHANGED <<config, measured, value, age, last, since>>

\* Its poll() connects again and subscribes; the broker keeps no values.
Resume(t) ==
  /\ ~online[t]
  /\ online' = [online EXCEPT ![t] = TRUE]
  /\ UNCHANGED <<config, measured, value, age, outbox, inbox, last, missed, since>>

Older == (age + 1) % ClockMod

ClockTick ==
  /\ age' = Older
  /\ since' = IF since < Lapse THEN since + 1 ELSE since
  /\ UNCHANGED <<config, measured, value, online, outbox, inbox, last, missed>>

PropertiesNext ==
  \/ writeProperty \/ push \/ Measure \/ Forward \/ Dashboard \/ ClockTick
  \/ \E t \in Things : callback(t) \/ Disconnect(t) \/ Resume(t)

PropertiesSpec == PropertiesInit /\ [][PropertiesNext]_propertyVars

-----------------------------------------------------------------------------
(* Properties                                                              *)

\* When nothing is under way, all things that did not miss the last message have the
\* value that it carried, in whatever order writes, echoes and the dashboard's
\* messages crossed.
Agreed == Quiet => \A t \in Things \ missed : value[t] = last

\* writeProperty() publishes a property with a lapse no earlier than that after its
\* last publication, across any wrap-around of millis().
Spacing == [][Published => since >= lapse]_propertyVars

\* The program runs, and from some time on it has the same value to write, the
\* connections last, and nobody else writes.
PropertiesFairSpec ==
  /\ PropertiesSpec
  /\ WF_propertyVars(ClockTick) /\ WF_propertyVars(Forward) /\ SF_propertyVars(writeProperty)
  /\ \A t \in Things : WF_propertyVars(callback(t)) /\ WF_propertyVars(Resume(t))
  /\ <>[][~(Measure \/ Dashboard \/ push \/ \E t \in Things : Disconnect(t))]_propertyVars

\* A program that goes on writing gets its value through to everyone who listens,
\* whatever was lost before and however long it had not written; only a property
\* with policy ON_CHANGE stays behind when its last change was lost.
CatchesUp ==
  policy # "on_change" =>
    \A v \in Values : <>[](measured = v) => <>[](last = v /\ value = [t \in Things |-> v])
=============================================================================
