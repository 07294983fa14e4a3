------------------------------ MODULE WebClient -----------------------------
(***************************************************************************)
(* The browser page, html/static/app.js: the user types and sends, send()  *)
(* waits for a checksum, posts, and refreshes the list; a timer refreshes  *)
(* it every five seconds.  Every fetch is a request whose answer arrives   *)
(* later, in any order, so calls of send() and fetchMessages() interleave  *)
(* at their awaits.                                                        *)
(*                                                                         *)
(* Of the server, POST /api/send queues the text for the radio and then    *)
(* appends it to the list that GET /api/messages returns; the append may   *)
(* fail without the page being told.  A request, or its answer, may be     *)
(* lost.                                                                   *)
(***************************************************************************)
EXTENDS Naturals, Sequences, SequencesExt

CONSTANTS
  Text,            \* what a user may type
  SendCall,        \* calls of send() under way, each with its refresh
  TimerCall,       \* refreshes of the timer under way
  NetworkMayFail,  \* may a request fail?
  PatientUser,     \* does the user leave the field alone during a send?
  MaxClicks        \* bound: how often send is clicked

ASSUME ClientAssumption ==
  /\ SendCall \cap TimerCall = {}
  /\ "" \notin Text
  /\ NetworkMayFail \in BOOLEAN /\ PatientUser \in BOOLEAN
  /\ MaxClicks \in Nat

Call == SendCall \cup TimerCall

VARIABLES
  input,   \* value of messageInput
  status,  \* what status-busy shows: "", "sending", "sent" or "LoRa failed"
  shown,   \* the messages in the list
  pc,      \* how far each call is: "free", "checksum", "posted", "unsigned",
           \* "accepted", "refused", "asked" or "answered"
  message, \* the text a send() call captured
  data,    \* the list in the answer to a refresh
  queued,  \* texts the server has put into the radio's queue
  log,     \* the server's list
  clicks

serverVars == <<queued, log, clicks>>
vars       == <<input, status, shown, pc, message, data, serverVars>>

Init ==
  /\ input = ""
  /\ status = ""
  /\ shown = <<>>
  /\ pc = [c \in Call |-> "free"]
  /\ message = [c \in SendCall |-> ""]
  /\ data = [c \in Call |-> <<>>]
  /\ queued = {}
  /\ log = <<>>
  /\ clicks = 0

Goto(c, from, to) == pc[c] = from /\ pc' = [pc EXCEPT ![c] = to]

Sending(c) == pc[c] \in {"checksum", "posted", "unsigned", "accepted", "refused"}

(* The user edits the field.                                               *)
Type(t) ==
  /\ PatientUser => \A c \in SendCall : ~Sending(c)
  /\ input' = t
  /\ UNCHANGED <<status, shown, pc, message, data, serverVars>>

(* Mutant: the field is cleared when send is clicked.                      *)
SendClearing(c) ==
  /\ clicks < MaxClicks
  /\ input # ""
  /\ Goto(c, "free", "checksum")
  /\ message' = [message EXCEPT ![c] = input]
  /\ input' = ""
  /\ clicks' = clicks + 1
  /\ UNCHANGED <<status, shown, data, queued, log>>

(* send(), up to await getChecksum().  Empty text returns at once.         *)
Send(c) ==
  /\ clicks < MaxClicks
  /\ input # ""
  /\ Goto(c, "free", "checksum")
  /\ message' = [message EXCEPT ![c] = input]
  /\ clicks' = clicks + 1
  /\ UNCHANGED <<input, status, shown, data, queued, log>>

(* getChecksum() returns the checksum, or "" if its request failed.        *)
getChecksum(c) ==
  \/ Goto(c, "checksum", "posted")
  \/ NetworkMayFail /\ Goto(c, "checksum", "unsigned")

messageStatus(s) == status' = s

(* The rest of send(), up to its fetch.                                    *)
SendPost(c) ==
  /\ getChecksum(c)
  /\ messageStatus("sending")
  /\ UNCHANGED <<input, shown, message, data, serverVars>>

(* The server queues the text and answers 200, also when the append to its *)
(* file raises: save_message_manually swallows that.                       *)
ServeSend(c) ==
  /\ Goto(c, "posted", "accepted")
  /\ queued' = queued \cup {message[c]}
  /\ log' \in {log, Append(log, message[c])}
  /\ UNCHANGED <<input, status, shown, message, data, clicks>>

(* The directory of the file cannot be made: 500, with the text queued.    *)
ServeSendError(c) ==
  /\ Goto(c, "posted", "refused")
  /\ queued' = queued \cup {message[c]}
  /\ UNCHANGED <<input, status, shown, message, data, log, clicks>>

(* The POST is refused (400, no checksum), or it or its answer is lost.    *)
RefuseSend(c) ==
  /\ \/ Goto(c, "unsigned", "refused")
     \/ NetworkMayFail /\ (Goto(c, "posted", "refused") \/ Goto(c, "accepted", "refused"))
  /\ UNCHANGED <<input, status, shown, message, data, serverVars>>

(* The answer is ok: clear the field and refresh.                          *)
SendOk(c) ==
  /\ Goto(c, "accepted", "asked")
  /\ messageStatus("sent")
  /\ input' = ""
  /\ UNCHANGED <<shown, message, data, serverVars>>

SendFailed(c) ==
  /\ Goto(c, "refused", "free")
  /\ messageStatus("LoRa failed")
  /\ UNCHANGED <<input, shown, message, data, serverVars>>

(* fetchMessages, called by setInterval (and once when the page is loaded) *)
Poll(c) ==
  /\ Goto(c, "free", "asked")
  /\ UNCHANGED <<input, status, shown, message, data, serverVars>>

ServePoll(c) ==
  /\ Goto(c, "asked", "answered")
  /\ data' = [data EXCEPT ![c] = log]
  /\ UNCHANGED <<input, status, shown, message, serverVars>>

(* The refresh fails: it is only logged.                                   *)
PollFailed(c) ==
  /\ NetworkMayFail
  /\ Goto(c, "asked", "free")
  /\ UNCHANGED <<input, status, shown, message, data, serverVars>>

(* Mutant: the list is not cleared first.                                  *)
ShowAppending(c) ==
  /\ Goto(c, "answered", "free")
  /\ shown' = shown \o data[c]
  /\ UNCHANGED <<input, status, message, data, serverVars>>

(* Mutant: the list is cleared and nothing is put into it.                 *)
ShowNothing(c) ==
  /\ Goto(c, "answered", "free")
  /\ shown' = <<>>
  /\ UNCHANGED <<input, status, message, data, serverVars>>

(* Clear the list, then show every entry of the answer.                    *)
Show(c) ==
  /\ Goto(c, "answered", "free")
  /\ shown' = data[c]
  /\ UNCHANGED <<input, status, message, data, serverVars>>

SendStep(c)    == \/ SendPost(c) \/ ServeSend(c) \/ ServeSendError(c)
                  \/ RefuseSend(c) \/ SendOk(c) \/ SendFailed(c)
RefreshStep(c) == ServePoll(c) \/ PollFailed(c) \/ Show(c)

Next ==
  \/ \E t \in Text \cup {""} : Type(t)
  \/ \E c \in SendCall : Send(c) \/ SendStep(c)
  \/ \E c \in TimerCall : Poll(c)
  \/ \E c \in Call : RefreshStep(c)

Spec == Init /\ [][Next]_vars

(* The timer keeps firing, callbacks run, and a page that keeps asking is  *)
(* answered again and again: GET /api/messages may fail, but not for ever, *)
(* as it would once the server's file holds a torn line.  Nobody has to    *)
(* click.                                                                  *)
Fairness == /\ \A c \in TimerCall : WF_vars(Poll(c))
            /\ \A c \in Call : SF_vars(ServePoll(c)) /\ WF_vars(Show(c))

FairSpec == Spec /\ Fairness

-----------------------------------------------------------------------------
(* Properties.                                                             *)

(* The list on the page is always a state the server's list has been in:   *)
(* refreshes whose answers overtake each other never mix, repeat or        *)
(* reorder messages.                                                       *)
ShownIsPrefix == IsPrefix(shown, log)

(* A text the user sent, and then left in the field, does not vanish on    *)
(* its way: until the server has queued it for the radio it is in the      *)
(* field, ready to be sent again, also when send is clicked twice, a       *)
(* checksum is missing, the server fails or an answer is lost.  (That it   *)
(* is then in the server's list is not so: ServeSend.)                     *)
TextKept ==
  \A c \in SendCall :
    Sending(c) => input = message[c] \/ message[c] \in queued

(* A message in the server's list is eventually on the page for good,      *)
(* although a late answer may take it off the page again for a while.      *)
ShownForGood ==
  \A t \in Text : [](t \in ToSet(log) => <>[](t \in ToSet(shown)))
=============================================================================
