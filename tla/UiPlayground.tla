---------------------------- MODULE UiPlayground ---------------------------
(***************************************************************************)
(* The playground page of gateway-ui (Playground.tsx): it takes a key for  *)
(* a device, and chats with the gateway.  A reply is shown at once or, in  *)
(* stream mode, by an interval that types it, two characters a tick.  The  *)
(* page keeps one reference to an interval, and no way to call a request   *)
(* back.                                                                   *)
(***************************************************************************)
EXTENDS Naturals

CONSTANTS
  MaxSends,  \* bound: messages sent
  MaxTicks,  \* bound: ticks it takes to type a reply
  MaxKeys,   \* bound: keys issued for the device
  Idle

VARIABLES
  page,    \* the page that is mounted
  key,     \* at the server: the device's key, numbered as issued
  stray,   \* requests for a new key sent by mounts that are gone
  boot,    \* how far the mount effect has come
  fresh,   \* the key issued for it
  token,   \* the key the page holds, 0 when none
  asked,   \* the messages of the user that are shown
  answer,  \* per message, whether its reply is shown, and in full
  typing,  \* a reply is awaited or being typed
  stream,  \* the switch
  timer,   \* the message whose interval the reference names, 0 when null
  sent,    \* messages sent
  send,    \* per message, its handler while it is on its way
  torn     \* the chat was cleared while a reply was awaited

chat == <<asked, answer, typing, stream, timer, sent, send, torn>>
playgroundVars == <<page, key, stray, boot, fresh, token, chat>>

Messages == 1 .. MaxSends

Handlers ==
  [pc : {"sent", "accepted", "typing"}, token : Nat, stream : BOOLEAN,
   left : 0 .. MaxTicks]

PlaygroundTypeOK ==
  /\ key \in Nat /\ stray \in Nat
  /\ boot \in {"off", "listing", "rotating", "rotated"} /\ fresh \in 0 .. key /\ token \in 0 .. key
  /\ asked \subseteq Messages
  /\ answer \in [Messages -> {"none", "part", "whole"}]
  /\ typing \in BOOLEAN /\ stream \in BOOLEAN /\ torn \in BOOLEAN
  /\ sent \in 0 .. MaxSends /\ timer \in 0 .. MaxSends
  /\ send \in [Messages -> Handlers \cup {Idle}]

Running == {s \in Messages : send[s] # Idle}
Present == page = "playground"

NoAnswer == [s \in Messages |-> "none"]
NoSend == [s \in Messages |-> Idle]

PlaygroundInit ==
  /\ key = 1 /\ stray = 0 /\ boot = "off" /\ fresh = 0 /\ token = 0
  /\ asked = {} /\ answer = NoAnswer /\ send = NoSend /\ sent = 0
  /\ typing = FALSE /\ stream = TRUE /\ timer = 0 /\ torn = FALSE

\* The page goes and comes anew.  Its closures keep running, on a state nobody
\* shows; a request for a key that is under way is all that is left of it.
Remount(mounting) ==
  /\ stray' = stray + IF boot = "rotating" THEN 1 ELSE 0
  /\ boot' = IF mounting THEN "listing" ELSE "off"
  /\ fresh' = 0 /\ token' = 0
  /\ asked' = {} /\ answer' = NoAnswer /\ send' = NoSend /\ sent' = 0
  /\ typing' = FALSE /\ stream' = TRUE /\ timer' = 0 /\ torn' = FALSE
  /\ UNCHANGED key

-----------------------------------------------------------------------------
(* The mount effect: list the devices, have the key of the first normal one *)
(* rotated, and keep the new key.                                           *)

\* The list arrives; with no normal device the effect is over.
Listed ==
  /\ boot = "listing"
  /\ boot' \in {"rotating", "off"}
  /\ UNCHANGED <<page, key, stray, fresh, token, chat>>

\* The server rotates the key, for this mount or for one that is gone.
RotateKey ==
  /\ key < MaxKeys
  /\ key' = key + 1
  /\ \/ boot = "rotating" /\ boot' = "rotated" /\ fresh' = key' /\ UNCHANGED stray
     \/ stray > 0 /\ stray' = stray - 1 /\ UNCHANGED <<boot, fresh>>
  /\ UNCHANGED <<page, token, chat>>

\* setToken
Rotated ==
  /\ boot = "rotated"
  /\ boot' = "off" /\ token' = fresh
  /\ UNCHANGED <<page, key, stray, fresh, chat>>

\* .catch(() => {}): a request that fails, before or after the server acts.
BootFails ==
  /\ boot # "off" /\ boot' = "off"
  /\ UNCHANGED <<page, key, stray, fresh, token, chat>>

-----------------------------------------------------------------------------
\* Mutant: Enter is taken while a reply is typed, as the guard were only on the
\* buttons.
SendAnyway(n) ==
  /\ Present /\ token # 0 /\ sent < MaxSends
  /\ sent' = sent + 1
  /\ asked' = asked \cup {sent'}
  /\ typing' = TRUE
  /\ send' = [send EXCEPT ![sent'] =
                [pc |-> "sent", token |-> token, stream |-> stream, left |-> n]]
  /\ UNCHANGED <<page, key, stray, boot, fresh, token, answer, stream, timer, torn>>

\* send, up to its request: from a template, the button or Enter.  n is the
\* number of ticks its reply will take.
Send(n) ==
  /\ Present /\ token # 0 /\ sent < MaxSends
  /\ ~typing
  /\ sent' = sent + 1
  /\ asked' = asked \cup {sent'}
  /\ typing' = TRUE
  /\ send' = [send EXCEPT ![sent'] =
                [pc |-> "sent", token |-> token, stream |-> stream, left |-> n]]
  /\ UNCHANGED <<page, key, stray, boot, fresh, token, answer, stream, timer, torn>>

\* The server lets the current key in.
Accept(s) ==
  /\ send[s].pc = "sent" /\ send[s].token = key
  /\ send' = [send EXCEPT ![s].pc = "accepted"]
  /\ UNCHANGED <<page, key, stray, boot, fresh, token, asked, answer, typing, stream, timer, sent, torn>>

\* Without streaming, the reply is shown as a whole.
Reply(s) ==
  /\ send[s].pc = "accepted" /\ ~send[s].stream
  /\ answer' = [answer EXCEPT ![s] = "whole"]
  /\ typing' = FALSE
  /\ send' = [send EXCEPT ![s] = Idle]
  /\ UNCHANGED <<page, key, stray, boot, fresh, token, asked, stream, timer, sent, torn>>

\* With it, an empty reply is shown and an interval started; the reference is
\* to this one from now on.
StartTyping(s) ==
  /\ send[s].pc = "accepted" /\ send[s].stream
  /\ answer' = [answer EXCEPT ![s] = "part"]
  /\ send' = [send EXCEPT ![s].pc = "typing"]
  /\ timer' = s
  /\ UNCHANGED <<page, key, stray, boot, fresh, token, asked, typing, stream, sent, torn>>

\* A tick of an interval before its last.
Tick(s) ==
  /\ send[s].pc = "typing" /\ send[s].left > 1
  /\ send' = [send EXCEPT ![s].left = @ - 1]
  /\ UNCHANGED <<page, key, stray, boot, fresh, token, asked, answer, typing, stream, timer, sent, torn>>

\* The handlers after clearInterval(timer.current).
Stopped ==
  [s \in Messages |-> IF s = timer /\ send[s] # Idle /\ send[s].pc = "typing"
                      THEN Idle ELSE send[s]]

\* Its last tick stops the interval the reference names, whosever it is, and
\* ends the handler.  Its own, if not that one, ticks on (left is 0) and stops
\* on every tick whatever the reference names by then.
LastTick(s) ==
  /\ send[s].pc = "typing" /\ send[s].left <= 1
  /\ send' = IF timer = s THEN Stopped ELSE [Stopped EXCEPT ![s].left = 0]
  /\ timer' = 0
  /\ answer' = [answer EXCEPT ![s] = IF @ = "part" THEN "whole" ELSE @]
  /\ typing' = (typing /\ send[s].left = 0)
  /\ UNCHANGED <<page, key, stray, boot, fresh, token, asked, stream, sent, torn>>

\* Mutant: the flag is lowered on success only.
RefusedTyping(s) ==
  /\ send[s].pc \in {"sent", "accepted"}
  /\ answer' = [answer EXCEPT ![s] = "whole"]
  /\ send' = [send EXCEPT ![s] = Idle]
  /\ UNCHANGED <<page, key, stray, boot, fresh, token, asked, typing, stream, timer, sent, torn>>

\* The catch: the failure is shown in the place of the reply.
Refused(s) ==
  /\ send[s].pc \in {"sent", "accepted"}
  /\ answer' = [answer EXCEPT ![s] = "whole"]
  /\ typing' = FALSE
  /\ send' = [send EXCEPT ![s] = Idle]
  /\ UNCHANGED <<page, key, stray, boot, fresh, token, asked, stream, timer, sent, torn>>

\* clearChat stops the interval, if there is one, but no request.
ClearChat ==
  /\ Present
  /\ send' = Stopped
  /\ asked' = {} /\ answer' = NoAnswer
  /\ typing' = FALSE
  /\ torn' = (torn \/ \E s \in Running : send[s].pc # "typing")
  /\ UNCHANGED <<page, key, stray, boot, fresh, token, stream, timer, sent>>

ToggleStream ==
  /\ Present
  /\ stream' = ~stream
  /\ UNCHANGED <<page, key, stray, boot, fresh, token, asked, answer, typing, timer, sent, send, torn>>

Goes(s) == Reply(s) \/ StartTyping(s) \/ Tick(s) \/ LastTick(s) \/ Refused(s)

PlaygroundNext ==
  \/ Listed \/ RotateKey \/ Rotated \/ BootFails
  \/ \E n \in 1 .. MaxTicks : Send(n)
  \/ \E s \in Running : Accept(s) \/ Goes(s)
  \/ ClearChat \/ ToggleStream

-----------------------------------------------------------------------------
(* Properties. *)

\* No reply is left half typed, and no two handlers are about at once: also
\* when the chat is cleared while a reply is typed, and a message sent again at
\* once.  A chat cleared while a reply is still awaited is excepted: see torn.
RepliesWhole ==
  PlaygroundTypeOK /\ (~torn =>
    /\ typing = (Running # {}) /\ \A s, u \in Running : s = u
    /\ \A s \in Messages : answer[s] = "part" => s \in Running)

\* The chat can be used again, whatever becomes of a message.
TypingEnds == typing ~> (~typing \/ torn)
=============================================================================
