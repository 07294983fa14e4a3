--------------------------- MODULE WebClientProofs --------------------------
(***************************************************************************)
(* Proofs about WebClient, for any number of calls of send() and of        *)
(* refreshes under way, any texts and clicks, and a network that may fail. *)
(***************************************************************************)
EXTENDS WebClient, TLAPS

Stage == {"free", "checksum", "posted", "unsigned", "accepted", "refused",
          "asked", "answered"}

TypeInv ==
  /\ input \in Text \cup {""}
  /\ shown \in Seq(Text \cup {""})
  /\ pc \in [Call -> Stage]
  /\ message \in [SendCall -> Text \cup {""}]
  /\ data \in [Call -> Seq(Text \cup {""})]
  /\ queued \subseteq Text \cup {""}
  /\ log \in Seq(Text \cup {""})

(* An answer under way is a state the server's list has been in.           *)
AnswerInv ==
  /\ IsPrefix(shown, log)
  /\ \A c \in Call : pc[c] = "answered" => IsPrefix(data[c], log)

(* The calls of send() under way all send what is in the field, or the     *)
(* field was cleared because the server has queued that text.              *)
FieldInv ==
  \A c \in SendCall :
    /\ Sending(c) => message[c] # ""
    /\ Sending(c) => \/ input = message[c]
                     \/ input = "" /\ message[c] \in queued
    /\ pc[c] = "accepted" => message[c] \in queued

IInv == TypeInv /\ AnswerInv

-----------------------------------------------------------------------------
(* Sequences                                                               *)

LEMMA PrefixFacts ==
  ASSUME NEW S, NEW s \in Seq(S), NEW t \in Seq(S), NEW e \in S
  PROVE  /\ IsPrefix(t, t)
         /\ IsPrefix(<<>>, t)
         /\ IsPrefix(s, t) => IsPrefix(s, Append(t, e))
<1>1. IsPrefix(t, t) BY DEF IsPrefix
<1>2. IsPrefix(<<>>, t) BY DEF IsPrefix
<1>3. ASSUME IsPrefix(s, t) PROVE IsPrefix(s, Append(t, e))
  BY <1>3 DEF IsPrefix
<1> QED BY <1>1, <1>2, <1>3

(* What ServeSend does to the server's list                                *)
LEMMA LogGrows ==
  ASSUME TypeInv, NEW c \in SendCall, ServeSend(c)
  PROVE  log' \in Seq(Text \cup {""})
<1> DEFINE S == Text \cup {""}
<1>1. log \in Seq(S) /\ message[c] \in S BY DEF TypeInv
<1> HIDE DEF S
<1>2. Append(log, message[c]) \in Seq(S) BY <1>1
<1> QED BY <1>1, <1>2 DEF ServeSend, S

-----------------------------------------------------------------------------
(* The invariant of the answers                                            *)

LEMMA InitHolds == Init => IInv /\ FieldInv
<1> SUFFICES ASSUME Init PROVE IInv /\ FieldInv OBVIOUS
<1>1. <<>> \in Seq(Text \cup {""}) OBVIOUS
<1>2. TypeInv BY <1>1 DEF Init, TypeInv, Stage
<1>3. AnswerInv
  BY <1>1, PrefixFacts DEF Init, AnswerInv
<1>4. FieldInv BY DEF Init, FieldInv, Sending, Call
<1> QED BY <1>2, <1>3, <1>4 DEF IInv
LEMMA TypeStep == TypeInv /\ [Next]_vars => TypeInv'
<1> SUFFICES ASSUME TypeInv, [Next]_vars PROVE TypeInv' OBVIOUS
<1> USE ClientAssumption
<1>1. ASSUME NEW t \in Text \cup {""}, Type(t) PROVE TypeInv'
  BY <1>1 DEF TypeInv, Type, serverVars
<1>2. ASSUME NEW c \in SendCall, Send(c) PROVE TypeInv'
  BY <1>2 DEF TypeInv, Send, Goto, Stage, Call
<1>3. ASSUME NEW c \in SendCall, SendPost(c) PROVE TypeInv'
  BY <1>3 DEF TypeInv, SendPost, getChecksum, messageStatus, Goto, Stage, Call,
              serverVars
<1>4. ASSUME NEW c \in SendCall, ServeSend(c) PROVE TypeInv'
  <2>1. log' \in Seq(Text \cup {""}) BY <1>4, LogGrows
  <2> QED BY <1>4, <2>1 DEF TypeInv, ServeSend, Goto, Stage, Call
<1>13. ASSUME NEW c \in SendCall, ServeSendError(c) PROVE TypeInv'
  BY <1>13 DEF TypeInv, ServeSendError, Goto, Stage, Call
<1>5. ASSUME NEW c \in SendCall, RefuseSend(c) PROVE TypeInv'
  BY <1>5 DEF TypeInv, RefuseSend, Goto, Stage, Call, serverVars
<1>6. ASSUME NEW c \in SendCall, SendOk(c) PROVE TypeInv'
  BY <1>6 DEF TypeInv, SendOk, messageStatus, Goto, Stage, Call, serverVars
<1>7. ASSUME NEW c \in SendCall, SendFailed(c) PROVE TypeInv'
  BY <1>7 DEF TypeInv, SendFailed, messageStatus, Goto, Stage, Call, serverVars
<1>8. ASSUME NEW c \in TimerCall, Poll(c) PROVE TypeInv'
  BY <1>8 DEF TypeInv, Poll, Goto, Stage, Call, serverVars
<1>9. ASSUME NEW c \in Call, ServePoll(c) PROVE TypeInv'
  BY <1>9 DEF TypeInv, ServePoll, Goto, Stage, serverVars
<1>10. ASSUME NEW c \in Call, PollFailed(c) PROVE TypeInv'
  BY <1>10 DEF TypeInv, PollFailed, Goto, Stage, serverVars
<1>11. ASSUME NEW c \in Call, Show(c) PROVE TypeInv'
  BY <1>11 DEF TypeInv, Show, Goto, Stage, serverVars
<1>12. CASE UNCHANGED vars BY <1>12 DEF TypeInv, vars, serverVars
<1> QED BY <1>1, <1>2, <1>3, <1>4, <1>5, <1>6, <1>7, <1>8, <1>9, <1>10, <1>11,
           <1>12, <1>13 DEF Next, SendStep, RefreshStep

(* Only ServePoll makes an answer, of the list as it is; only ServeSend    *)
(* makes the list longer, and prefixes stay prefixes.                      *)
LEMMA AnswerStep == TypeInv /\ AnswerInv /\ [Next]_vars => AnswerInv'
<1> SUFFICES ASSUME TypeInv, AnswerInv, [Next]_vars PROVE AnswerInv' OBVIOUS
<1> DEFINE Quiet == /\ UNCHANGED <<shown, data, log>>
                    /\ \A c \in Call : pc'[c] = "answered" => pc[c] = "answered"
<1>0. ASSUME Quiet PROVE AnswerInv' BY <1>0 DEF AnswerInv
<1>1. ASSUME NEW t \in Text \cup {""}, Type(t) PROVE AnswerInv'
  BY <1>0, <1>1 DEF Type, serverVars
<1>2. ASSUME NEW c \in SendCall, Send(c) \/ SendPost(c) \/ ServeSendError(c)
                                 \/ RefuseSend(c) \/ SendOk(c) \/ SendFailed(c)
      PROVE  AnswerInv'
  BY <1>0, <1>2 DEF TypeInv, Send, SendPost, getChecksum, ServeSendError,
                    RefuseSend, SendOk, SendFailed, Goto, serverVars
<1>3. ASSUME NEW c \in SendCall, ServeSend(c) PROVE AnswerInv'
  <2>1. message[c] \in Text \cup {""} BY DEF TypeInv
  <2>2. /\ log' = log \/ log' = Append(log, message[c])
        /\ UNCHANGED <<shown, data>>
        /\ \A d \in Call : pc'[d] = "answered" => pc[d] = "answered"
    BY <1>3 DEF ServeSend, Goto, TypeInv
  <2>3. IsPrefix(shown, log') BY <2>1, <2>2, PrefixFacts DEF TypeInv, AnswerInv
  <2>4. ASSUME NEW d \in Call, pc'[d] = "answered"
        PROVE  IsPrefix(data[d], log')
    <3>1. IsPrefix(data[d], log) /\ data[d] \in Seq(Text \cup {""})
      BY <2>2, <2>4 DEF TypeInv, AnswerInv
    <3> QED BY <2>1, <2>2, <3>1, PrefixFacts DEF TypeInv
  <2> QED BY <2>2, <2>3, <2>4 DEF AnswerInv
<1>4. ASSUME NEW c \in TimerCall, Poll(c) PROVE AnswerInv'
  BY <1>0, <1>4 DEF TypeInv, Poll, Goto, serverVars
<1>5. ASSUME NEW c \in Call, ServePoll(c) PROVE AnswerInv'
  <2>1. IsPrefix(log, log) BY PrefixFacts DEF TypeInv
  <2>2. /\ UNCHANGED <<shown, log>> /\ data' = [data EXCEPT ![c] = log]
        /\ \A d \in Call \ {c} : pc'[d] = "answered" => pc[d] = "answered"
    BY <1>5 DEF ServePoll, Goto, TypeInv, serverVars
  <2> QED BY <2>1, <2>2 DEF AnswerInv, TypeInv
<1>6. ASSUME NEW c \in Call, PollFailed(c) PROVE AnswerInv'
  BY <1>0, <1>6 DEF TypeInv, PollFailed, Goto, serverVars
<1>7. ASSUME NEW c \in Call, Show(c) PROVE AnswerInv'
  BY <1>7 DEF TypeInv, AnswerInv, Show, Goto, serverVars
<1>8. CASE UNCHANGED vars BY <1>0, <1>8 DEF vars, serverVars
<1> QED BY <1>1, <1>2, <1>3, <1>4, <1>5, <1>6, <1>7, <1>8
        DEF Next, SendStep, RefreshStep

(* The inductive invariant of the answers.  The shown list alone is not    *)
(* inductive: what Show puts on the page was fixed when the server         *)
(* answered.                                                               *)
THEOREM Invariant == Spec => []IInv
<1>1. Init => IInv BY InitHolds
<1>2. IInv /\ [Next]_vars => IInv' BY TypeStep, AnswerStep DEF IInv
<1> QED BY <1>1, <1>2, PTL DEF Spec

(* The list on the page is always a state the server's list was in, for    *)
(* any number of refreshes that overtake each other (fetchMessages).       *)
THEOREM PageIsPrefix == Spec => []ShownIsPrefix
<1>1. IInv => ShownIsPrefix BY DEF IInv, AnswerInv, ShownIsPrefix
<1> QED BY <1>1, Invariant, PTL

-----------------------------------------------------------------------------
(* The text in the field                                                   *)

(* What is queued stays queued for the page; the actions that leave the    *)
(* field and the captured texts alone are the quiet ones.                  *)
LEMMA FieldStep ==
  PatientUser /\ TypeInv /\ FieldInv /\ [Next]_vars => FieldInv'
<1> SUFFICES ASSUME PatientUser, TypeInv, FieldInv, [Next]_vars PROVE FieldInv'
  OBVIOUS
<1> USE ClientAssumption
<1> DEFINE Quiet ==
         /\ UNCHANGED <<input, message>> /\ queued \subseteq queued'
         /\ \A c \in SendCall : Sending(c)' => Sending(c)
         /\ \A c \in SendCall : pc'[c] = "accepted" => pc[c] = "accepted"
<1>0. ASSUME Quiet PROVE FieldInv' BY <1>0 DEF FieldInv
<1>1. ASSUME NEW t \in Text \cup {""}, Type(t) PROVE FieldInv'
  BY <1>1 DEF Type, FieldInv, Sending, serverVars
<1>2. ASSUME NEW c \in SendCall, Send(c) PROVE FieldInv'
  <2>1. /\ pc[c] = "free" /\ pc' = [pc EXCEPT ![c] = "checksum"]
        /\ message' = [message EXCEPT ![c] = input] /\ input # ""
        /\ UNCHANGED <<input, queued>> /\ c \in Call
    BY <1>2 DEF Send, Goto, Call
  <2> QED BY <2>1 DEF FieldInv, Sending, TypeInv, Call
<1>3. ASSUME NEW c \in SendCall, SendPost(c) \/ ServeSendError(c) \/ RefuseSend(c)
                                 \/ SendFailed(c)
      PROVE  FieldInv'
  BY <1>0, <1>3 DEF TypeInv, SendPost, getChecksum, ServeSendError, RefuseSend,
                    SendFailed, Goto, Sending, Call, serverVars
<1>4. ASSUME NEW c \in SendCall, ServeSend(c) PROVE FieldInv'
  <2>1. /\ pc[c] = "posted" /\ pc' = [pc EXCEPT ![c] = "accepted"]
        /\ queued' = queued \cup {message[c]}
        /\ UNCHANGED <<input, message>> /\ c \in Call
    BY <1>4 DEF ServeSend, Goto, Call
  <2> QED BY <2>1 DEF FieldInv, Sending, TypeInv, Call
<1>5. ASSUME NEW c \in SendCall, SendOk(c) PROVE FieldInv'
  <2>1. /\ pc[c] = "accepted" /\ pc' = [pc EXCEPT ![c] = "asked"] /\ c \in Call
        /\ input' = "" /\ UNCHANGED <<message, queued>>
    BY <1>5 DEF SendOk, Goto, Call, serverVars
  <2>2. message[c] \in queued /\ Sending(c)
    BY <2>1 DEF FieldInv, Sending
  <2>3. \A d \in SendCall : Sending(d) => message[d] \in queued
    BY <2>2 DEF FieldInv
  <2> QED BY <2>1, <2>3 DEF FieldInv, Sending, TypeInv, Call
<1>6. ASSUME NEW c \in TimerCall, Poll(c) PROVE FieldInv'
  BY <1>0, <1>6 DEF TypeInv, Poll, Goto, Sending, Call, serverVars
<1>7. ASSUME NEW c \in Call, RefreshStep(c) PROVE FieldInv'
  BY <1>0, <1>7 DEF TypeInv, RefreshStep, ServePoll, PollFailed, Show, Goto,
                    Sending, Call, serverVars
<1>8. CASE UNCHANGED vars BY <1>0, <1>8 DEF vars, serverVars, Sending
<1> QED BY <1>1, <1>2, <1>3, <1>4, <1>5, <1>6, <1>7, <1>8 DEF Next, SendStep

(* If the user leaves the field alone while a send is under way, a text    *)
(* that was sent is in the field until the server has queued it, for any   *)
(* number of clicks, of calls of send(), of failures and lost requests.    *)
THEOREM TextIsKept == ASSUME PatientUser PROVE Spec => []TextKept
<1>1. Init => TypeInv /\ FieldInv BY InitHolds DEF IInv
<1>2. TypeInv /\ FieldInv /\ [Next]_vars => TypeInv' /\ FieldInv'
  BY TypeStep, FieldStep
<1>3. FieldInv => TextKept BY DEF FieldInv, TextKept
<1> QED BY <1>1, <1>2, <1>3, PTL DEF Spec
=============================================================================
