---------------------------- MODULE IoAllProofs ----------------------------
(***************************************************************************)
(* sendall and recvall transfer every byte once and in order, for every    *)
(* count, capacity and limit of a system call, whatever goes wrong.        *)
(***************************************************************************)
EXTENDS IoAll, SequenceTheorems, TLAPS

-----------------------------------------------------------------------------
(***************************************************************************)
(* What the wrappers make of the results of the system calls.              *)
(***************************************************************************)
Errors == {"EAGAIN", "EINTR", "ECONNRESET", "EUNKNOWN"}

LEMMA RecvResult ==
    ASSUME IoTypeOK, NEW count \in Nat \ {0}, NEW sys \in SysRecv(count)
    PROVE  /\ recv(count, sys).n \in 0 .. count
           /\ recv(count, sys).n <= Len(pipe)
           /\ recv(count, sys).res \in Errors \union {"OK", "EOF"}
           /\ recv(count, sys).res = "OK" <=> recv(count, sys).n > 0
           /\ recv(count, sys).res = "EOF" => closed /\ ~ reset /\ pipe = <<>>
           /\ reset => recv(count, sys).n = 0
<1>1. Len(pipe) \in Nat /\ (pipe # <<>> => Len(pipe) > 0)
  BY DEF IoTypeOK
<1>2. CASE sys \in Interruptions
  BY <1>1, <1>2, IoAllAssumption DEF Interruptions, Fails, recv, Errors, geterrno, minimk_errno_map, Shared, NoErrno
<1>3. CASE reset /\ sys \in ResetErrors
  BY <1>1, <1>3 DEF Fails, recv, Errors, ResetErrors, geterrno, minimk_errno_map, Shared, NoErrno
<1>4. CASE ~ reset /\ pipe # <<>>
           /\ \E n \in 1 .. Least(Least(count, SSizeMax), Len(pipe)) : sys = Sys(n)
  <2>1. PICK n \in 1 .. Least(Least(count, SSizeMax), Len(pipe)) : sys = Sys(n)
    BY <1>4
  <2>2. n \in Nat /\ 1 <= n /\ n <= count /\ n <= Len(pipe)
    BY <1>1, IoAllAssumption DEF Least
  <2>3. recv(count, sys) = [res |-> "OK", n |-> n]
    BY <2>1, <2>2 DEF recv, Sys
  <2> QED BY <1>4, <2>2, <2>3
<1>5. CASE ~ reset /\ pipe = <<>> /\ closed /\ sys = Sys(0)
  BY <1>1, <1>5 DEF Sys, recv, Errors
<1>6. CASE ~ reset /\ pipe = <<>> /\ ~ closed /\ sys = Fails("EAGAIN")
  BY <1>1, <1>6 DEF Fails, recv, Errors, ResetErrors, geterrno, minimk_errno_map, Shared, NoErrno
<1> QED BY <1>2, <1>3, <1>4, <1>5, <1>6 DEF SysRecv

LEMMA SendResult ==
    ASSUME IoTypeOK, NEW count \in Nat \ {0}, NEW sys \in SysSend(count)
    PROVE  /\ send(count, sys).n \in 0 .. count
           /\ send(count, sys).n <= Capacity - Len(pipe)
           /\ send(count, sys).res \in Errors \union {"OK"}
           /\ send(count, sys).res = "OK" <=> send(count, sys).n > 0
           /\ reset => send(count, sys).n = 0
<1>1. Len(pipe) \in Nat /\ Len(pipe) <= Capacity /\ Capacity \in Nat
  BY IoAllAssumption DEF IoTypeOK
<1>2. CASE sys \in Interruptions
  BY <1>1, <1>2, IoAllAssumption DEF Interruptions, Fails, send, Errors, geterrno, minimk_errno_map, Shared, NoErrno
<1>3. CASE reset /\ sys \in ResetErrors
  BY <1>1, <1>3 DEF Fails, send, Errors, ResetErrors, geterrno, minimk_errno_map, Shared, NoErrno
<1>4. CASE ~ reset /\ Len(pipe) < Capacity
           /\ \E n \in 1 .. Least(Least(count, SSizeMax), Capacity - Len(pipe)) : sys = Sys(n)
  <2>1. PICK n \in 1 .. Least(Least(count, SSizeMax), Capacity - Len(pipe)) : sys = Sys(n)
    BY <1>4
  <2>2. n \in Nat /\ 1 <= n /\ n <= count /\ n <= Capacity - Len(pipe)
    BY <1>1, <1>4, IoAllAssumption DEF Least
  <2>3. send(count, sys) = [res |-> "OK", n |-> n]
    BY <2>1, <2>2 DEF send, Sys
  <2> QED BY <1>4, <2>2, <2>3
<1>5. CASE ~ reset /\ ~ (Len(pipe) < Capacity) /\ sys = Fails("EAGAIN")
  BY <1>1, <1>5 DEF Fails, send, Errors, ResetErrors, geterrno, minimk_errno_map, Shared, NoErrno
<1> QED BY <1>2, <1>3, <1>4, <1>5 DEF SysSend

(***************************************************************************)
(* A round advances total by what was transferred, and ends the loop only  *)
(* with a result that was not an interruption.                             *)
(***************************************************************************)
LEMMA RoundAdvances ==
    ASSUME NEW loop \in LoopType, loop.at = "round", loop.res = "none",
           NEW amount \in Nat, amount = Count - loop.total,
           NEW r, r.n \in 0 .. amount,
           r.res \in Errors \union {"OK", "EOF"}, r.res = "OK" <=> r.n > 0
    PROVE  /\ AfterRound(loop, amount, r) \in LoopType
           /\ AfterRound(loop, amount, r).total = loop.total + r.n
           /\ AfterRound(loop, amount, r).at # "abort"
           /\ AfterRound(loop, amount, r).at = "end" <=> AfterRound(loop, amount, r).res # "none"
           /\ AfterRound(loop, amount, r).res \in {"none", r.res} \ {"OK"}
<1>1. loop.total \in Nat /\ loop.total <= Count /\ Count \in Nat
  BY IoAllAssumption DEF LoopType
<1>2. CASE r.res = "OK"
  <2>1. AfterRound(loop, amount, r) = [loop EXCEPT !.total = @ + r.n]
    BY <1>2 DEF AfterRound
  <2>2. loop.total + r.n \in 0 .. Count
    BY <1>1
  <2> QED BY <1>1, <1>2, <2>1, <2>2 DEF LoopType
<1>3. CASE r.res = "EAGAIN"
  <2>1. AfterRound(loop, amount, r) = [loop EXCEPT !.at = "wait"] /\ r.n = 0
    BY <1>3 DEF AfterRound
  <2> QED BY <1>1, <2>1 DEF LoopType
<1>4. CASE r.res = "EINTR"
  <2>1. AfterRound(loop, amount, r) = loop /\ r.n = 0
    BY <1>4 DEF AfterRound
  <2> QED BY <1>1, <2>1 DEF LoopType
<1>5. CASE r.res \in {"ECONNRESET", "EUNKNOWN", "EOF"}
  <2> DEFINE res == r.res
             next == [loop EXCEPT !.at = "end", !.res = res]
  <2>1. AfterRound(loop, amount, r) = next /\ r.n = 0
    BY <1>5 DEF AfterRound, Ended
  <2>2. res \in {"ECONNRESET", "EUNKNOWN", "EOF"}
    BY <1>5
  <2>3. next \in LoopType /\ next.total = loop.total /\ next.at = "end" /\ next.res = res
    <3> HIDE DEF res
    <3> QED BY <2>2 DEF LoopType
  <2> HIDE DEF next
  <2> QED BY <1>1, <2>1, <2>2, <2>3
<1> QED BY <1>2, <1>3, <1>4, <1>5 DEF Errors
-----------------------------------------------------------------------------
(***************************************************************************)
(* The invariant.  got[i] = i says that the receiver has the prefix of the *)
(* message, and pipe[i] = rcv.total + i that the kernel has what follows,  *)
(* up to snd.total.  A reset empties the kernel and nothing enters it any  *)
(* more.  A loop is at its end exactly if it has a result, a success needs *)
(* the whole count, and the socket is destroyed only after that, so that   *)
(* an end of file can only follow a sender that failed.                    *)
(***************************************************************************)
BytesInOrder ==
    /\ Len(got) = rcv.total
    /\ \A i \in 1 .. Len(got) : got[i] = i
    /\ ~ reset => /\ rcv.total + Len(pipe) = snd.total
                  /\ \A i \in 1 .. Len(pipe) : pipe[i] = rcv.total + i
    /\ reset => pipe = <<>>

EndsHaveResults ==
    /\ snd.at = "end" <=> snd.res # "none"
    /\ rcv.at = "end" <=> rcv.res # "none"
    /\ closed => snd.at = "end"
    /\ snd.res = "OK" => snd.total = Count
    /\ rcv.res = "OK" => rcv.total = Count
    /\ rcv.res = "EOF" => /\ rcv.total < Count
                          /\ closed /\ snd.res \notin {"none", "OK"}

IoInv == IoTypeOK /\ IoNoAssertFires /\ BytesInOrder /\ EndsHaveResults

LEMMA InitiallyIoInv == IoInit => IoInv
<1> SUFFICES ASSUME IoInit PROVE IoInv
  OBVIOUS
<1>1. IoTypeOK
  <2>1. pipe \in Seq(Byte) /\ got \in Seq(Byte) /\ Len(pipe) <= Capacity
    BY IoAllAssumption DEF IoInit
  <2>2. snd \in LoopType /\ rcv \in LoopType
    BY IoAllAssumption DEF LoopType, IoInit, Loop
  <2>3. closed \in BOOLEAN /\ reset \in BOOLEAN
    BY DEF IoInit
  <2> QED BY <2>1, <2>2, <2>3 DEF IoTypeOK
<1>2. IoNoAssertFires /\ BytesInOrder /\ EndsHaveResults
  BY DEF IoInit, Loop, IoNoAssertFires, BytesInOrder, EndsHaveResults
<1> QED BY <1>1, <1>2 DEF IoInv

(***************************************************************************)
(* Two facts about sequences: what Chunk takes from the message, and where *)
(* the elements of a concatenation come from.                              *)
(***************************************************************************)
LEMMA ChunkBytes ==
    ASSUME NEW total \in Nat, NEW n \in Nat, total + n <= Count
    PROVE  /\ Chunk(total, n) \in Seq(Byte)
           /\ Len(Chunk(total, n)) = n
           /\ \A i \in 1 .. n : Chunk(total, n)[i] = total + i
<1>1. Message \in Seq(Byte) /\ Len(Message) = Count /\ \A i \in 1 .. Count : Message[i] = i
  BY IoAllAssumption DEF Message, Byte
<1> HIDE DEF Message
<1>2. \A i \in 1 .. n : total + i \in 1 .. Count
  BY IoAllAssumption
<1> QED BY <1>1, <1>2, IoAllAssumption, SubSeqProperties DEF Chunk

LEMMA ConcatBytes ==
    ASSUME NEW S, NEW s \in Seq(S), NEW t \in Seq(S)
    PROVE  /\ s \o t \in Seq(S)
           /\ Len(s \o t) = Len(s) + Len(t)
           /\ \A i \in 1 .. Len(s) : (s \o t)[i] = s[i]
           /\ \A i \in Len(s) + 1 .. Len(s) + Len(t) : (s \o t)[i] = t[i - Len(s)]
OBVIOUS

-----------------------------------------------------------------------------
LEMMA SendRoundKeepsIoInv == IoInv /\ SendRound => IoInv'
<1> SUFFICES ASSUME IoInv, SendRound PROVE IoInv'
  OBVIOUS
<1> DEFINE amount == Count - snd.total
<1>1. IoTypeOK /\ IoNoAssertFires /\ BytesInOrder /\ EndsHaveResults
  BY DEF IoInv
<1>2. /\ snd \in LoopType /\ snd.at = "round" /\ snd.res = "none" /\ ~ closed
      /\ snd.total \in Nat /\ Count \in Nat /\ amount \in Nat \ {0}
  BY <1>1, IoAllAssumption DEF SendRound, IoTypeOK, LoopType, EndsHaveResults
<1>3. PICK sys \in SysSend(amount) :
          /\ snd' = AfterRound(snd, amount, send(amount, sys))
          /\ pipe' = pipe \o Chunk(snd.total, send(amount, sys).n)
  BY DEF SendRound
<1>4. UNCHANGED <<rcv, got, closed, reset>>
  BY DEF SendRound
<1> DEFINE r == send(amount, sys)
<1>5. /\ r.n \in 0 .. amount /\ r.n <= Capacity - Len(pipe)
      /\ r.res \in Errors \union {"OK"} /\ (r.res = "OK" <=> r.n > 0)
      /\ reset => r.n = 0
  BY <1>1, <1>2, SendResult
<1> HIDE DEF r
<1>6. /\ snd' \in LoopType /\ snd'.total = snd.total + r.n /\ snd'.at # "abort"
      /\ (snd'.at = "end" <=> snd'.res # "none") /\ snd'.res # "OK"
  <2>1. r.res \in Errors \union {"OK", "EOF"} /\ amount \in Nat
    BY <1>2, <1>5
  <2>2. snd' = AfterRound(snd, amount, r)
    BY <1>3 DEF r
  <2> QED BY <1>2, <1>5, <2>1, <2>2, RoundAdvances
<1> DEFINE c == Chunk(snd.total, r.n)
<1>7. c \in Seq(Byte) /\ Len(c) = r.n /\ \A i \in 1 .. r.n : c[i] = snd.total + i
  <2>1. r.n \in Nat /\ snd.total + r.n <= Count
    BY <1>2, <1>5
  <2> QED BY <1>2, <2>1, ChunkBytes
<1>8. pipe' = pipe \o c
  BY <1>3 DEF r
<1> HIDE DEF c, amount
<1>9. /\ pipe \in Seq(Byte) /\ pipe' \in Seq(Byte) /\ Len(pipe) \in Nat
      /\ Len(pipe') = Len(pipe) + r.n
      /\ \A i \in 1 .. Len(pipe) : pipe'[i] = pipe[i]
      /\ \A i \in Len(pipe) + 1 .. Len(pipe) + r.n : pipe'[i] = c[i - Len(pipe)]
  <2>1. pipe \in Seq(Byte)
    BY <1>1 DEF IoTypeOK
  <2> QED BY <2>1, <1>7, <1>8, ConcatBytes
<1>10. IoTypeOK'
  BY <1>1, <1>4, <1>5, <1>6, <1>9, IoAllAssumption DEF IoTypeOK, amount
<1>11. BytesInOrder'
  <2>1. rcv.total \in Nat /\ r.n \in Nat
    BY <1>1, <1>5, <1>2, IoAllAssumption DEF IoTypeOK, LoopType, amount
  <2>2. CASE reset
    <3>1. r.n = 0 /\ pipe = <<>>
      BY <1>1, <1>5, <2>2 DEF BytesInOrder
    <3>2. Len(pipe') = 0
      BY <3>1, <1>9
    <3>3. pipe' = <<>>
      BY <3>2, <1>9
    <3> QED BY <1>1, <1>4, <2>2, <3>3 DEF BytesInOrder
  <2>3. CASE ~ reset
    <3>1. rcv.total + Len(pipe) = snd.total /\ \A i \in 1 .. Len(pipe) : pipe[i] = rcv.total + i
      BY <1>1, <2>3 DEF BytesInOrder
    <3>2. rcv.total + Len(pipe') = snd'.total
      BY <1>2, <1>6, <1>9, <2>1, <3>1
    <3>3. ASSUME NEW i \in 1 .. Len(pipe') PROVE pipe'[i] = rcv.total + i
      <4>1. CASE i <= Len(pipe)
        BY <1>9, <2>1, <3>1, <4>1
      <4>2. CASE i > Len(pipe)
        <5>1. i \in Len(pipe) + 1 .. Len(pipe) + r.n /\ i - Len(pipe) \in 1 .. r.n
          BY <1>9, <2>1, <4>2
        <5>2. pipe'[i] = snd.total + (i - Len(pipe))
          BY <5>1, <1>7, <1>9
        <5> QED BY <5>1, <5>2, <3>1, <1>2, <1>9, <2>1
      <4> QED BY <4>1, <4>2, <1>9, <2>1
    <3> QED BY <1>1, <1>4, <2>3, <3>2, <3>3 DEF BytesInOrder
  <2> QED BY <2>2, <2>3
<1>12. EndsHaveResults'
  BY <1>1, <1>2, <1>4, <1>6 DEF EndsHaveResults
<1> QED BY <1>1, <1>4, <1>6, <1>10, <1>11, <1>12 DEF IoInv, IoNoAssertFires

LEMMA RecvRoundKeepsIoInv == IoInv /\ RecvRound => IoInv'
<1> SUFFICES ASSUME IoInv, RecvRound PROVE IoInv'
  OBVIOUS
<1> DEFINE amount == Count - rcv.total
<1>1. IoTypeOK /\ IoNoAssertFires /\ BytesInOrder /\ EndsHaveResults
  BY DEF IoInv
<1>2. /\ rcv \in LoopType /\ rcv.at = "round" /\ rcv.res = "none"
      /\ rcv.total \in Nat /\ Count \in Nat /\ amount \in Nat \ {0}
  BY <1>1, IoAllAssumption DEF RecvRound, IoTypeOK, LoopType, EndsHaveResults
<1>3. PICK sys \in SysRecv(amount) :
          /\ rcv' = AfterRound(rcv, amount, recv(amount, sys))
          /\ got' = SubSeq(got, 1, rcv.total) \o SubSeq(pipe, 1, recv(amount, sys).n)
          /\ pipe' = SubSeq(pipe, recv(amount, sys).n + 1, Len(pipe))
  BY DEF RecvRound
<1>4. UNCHANGED <<snd, closed, reset>>
  BY DEF RecvRound
<1> DEFINE r == recv(amount, sys)
<1>5. /\ r.n \in 0 .. amount /\ r.n <= Len(pipe)
      /\ r.res \in Errors \union {"OK", "EOF"} /\ (r.res = "OK" <=> r.n > 0)
      /\ r.res = "EOF" => closed /\ ~ reset /\ pipe = <<>>
      /\ reset => r.n = 0
  BY <1>1, <1>2, RecvResult
<1> HIDE DEF r
<1>6. /\ rcv' \in LoopType /\ rcv'.total = rcv.total + r.n /\ rcv'.at # "abort"
      /\ (rcv'.at = "end" <=> rcv'.res # "none") /\ rcv'.res \in {"none", r.res} \ {"OK"}
  <2>1. rcv' = AfterRound(rcv, amount, r) /\ amount \in Nat
    BY <1>2, <1>3 DEF r
  <2> QED BY <1>2, <1>5, <2>1, RoundAdvances
<1> HIDE DEF amount
<1>7. /\ pipe \in Seq(Byte) /\ got \in Seq(Byte) /\ Len(pipe) \in Nat
      /\ Len(got) = rcv.total /\ \A i \in 1 .. Len(got) : got[i] = i
      /\ Len(pipe) <= Capacity /\ r.n \in Nat /\ Capacity \in Nat
  BY <1>1, <1>2, <1>5, IoAllAssumption DEF IoTypeOK, BytesInOrder, amount
\* The bytes that were read ...
<1> DEFINE c == SubSeq(pipe, 1, r.n)
<1>8. /\ c \in Seq(Byte) /\ Len(c) = r.n /\ \A i \in 1 .. r.n : c[i] = pipe[i]
  BY <1>5, <1>7, SubSeqProperties
<1>9. SubSeq(got, 1, rcv.total) = got
  BY <1>7, SubSeqFull
<1>10. got' = got \o c
  BY <1>3, <1>9 DEF r
<1> HIDE DEF c
<1>11. /\ got' \in Seq(Byte) /\ Len(got') = rcv.total + r.n
       /\ \A i \in 1 .. rcv.total : got'[i] = got[i]
       /\ \A i \in rcv.total + 1 .. rcv.total + r.n : got'[i] = c[i - rcv.total]
  <2>1. /\ got' \in Seq(Byte) /\ Len(got') = Len(got) + Len(c)
        /\ \A i \in 1 .. Len(got) : got'[i] = got[i]
        /\ \A i \in Len(got) + 1 .. Len(got) + Len(c) : got'[i] = c[i - Len(got)]
    <3>1. got \in Seq(Byte) /\ c \in Seq(Byte)
      BY <1>7, <1>8
    <3> QED BY ONLY <3>1, <1>10, ConcatBytes
  <2> QED BY <2>1, <1>7, <1>8
\* ... and those that stay in the kernel.
<1>12. /\ pipe' \in Seq(Byte) /\ Len(pipe') = Len(pipe) - r.n
       /\ \A i \in 1 .. Len(pipe) - r.n : pipe'[i] = pipe[r.n + i]
  <2>1. pipe' = SubSeq(pipe, r.n + 1, Len(pipe))
    BY <1>3 DEF r
  <2>2. \A i \in r.n + 1 .. Len(pipe) : pipe[i] \in Byte
    BY <1>7
  <2> QED BY <1>5, <1>7, <2>1, <2>2, SubSeqProperties
<1>13. IoTypeOK'
  BY <1>1, <1>4, <1>5, <1>6, <1>7, <1>11, <1>12 DEF IoTypeOK
<1>14. BytesInOrder'
  <2>1. CASE reset
    <3>1. r.n = 0 /\ pipe = <<>> /\ Len(pipe) = 0
      BY <1>1, <1>5, <2>1 DEF BytesInOrder
    <3>2. Len(pipe') = 0 /\ pipe' \in Seq(Byte)
      BY <1>7, <1>12, <3>1
    <3>3. pipe' = <<>>
      BY <3>2
    <3>4. \A i \in 1 .. Len(got') : got'[i] = i
      BY <1>2, <1>7, <1>11, <3>1
    <3> QED BY <1>2, <1>4, <1>6, <1>11, <2>1, <3>3, <3>4 DEF BytesInOrder
  <2>2. CASE ~ reset
    <3>1. rcv.total + Len(pipe) = snd.total /\ \A i \in 1 .. Len(pipe) : pipe[i] = rcv.total + i
      BY <1>1, <2>2 DEF BytesInOrder
    <3>2. rcv'.total + Len(pipe') = snd'.total
      BY <1>2, <1>4, <1>6, <1>7, <1>12, <3>1
    <3>3. ASSUME NEW i \in 1 .. Len(got') PROVE got'[i] = i
      <4>1. CASE i <= rcv.total
        BY <1>2, <1>7, <1>11, <4>1
      <4>2. CASE i > rcv.total
        <5>1. i \in rcv.total + 1 .. rcv.total + r.n /\ i - rcv.total \in 1 .. r.n
              /\ i - rcv.total \in 1 .. Len(pipe)
          BY <1>2, <1>5, <1>7, <1>11, <4>2
        <5>2. got'[i] = pipe[i - rcv.total]
          BY <5>1, <1>8, <1>11
        <5> QED BY <5>1, <5>2, <3>1, <1>2
      <4> QED BY <4>1, <4>2, <1>2, <1>7, <1>11
    <3>4. ASSUME NEW i \in 1 .. Len(pipe') PROVE pipe'[i] = rcv'.total + i
      <4>1. i \in 1 .. Len(pipe) - r.n /\ r.n + i \in 1 .. Len(pipe)
        BY <1>5, <1>7, <1>12
      <4>2. pipe'[i] = rcv.total + (r.n + i)
        BY <4>1, <1>12, <3>1
      <4> QED BY <4>1, <4>2, <1>2, <1>6, <1>7
    <3> QED BY <1>4, <1>6, <1>11, <2>2, <3>2, <3>3, <3>4 DEF BytesInOrder
  <2> QED BY <2>1, <2>2
<1>15. EndsHaveResults'
  <2>1. ASSUME rcv'.res = "EOF"
        PROVE  rcv'.total < Count /\ closed /\ snd.res \notin {"none", "OK"}
    <3>1. r.res = "EOF" /\ r.n = 0 /\ closed /\ ~ reset /\ Len(pipe) = 0
      BY <1>5, <1>6, <1>7, <2>1
    <3>2. rcv'.total = rcv.total /\ rcv.total < Count /\ snd.total = rcv.total
      BY <1>1, <1>2, <1>6, <3>1 DEF BytesInOrder, amount
    <3>3. snd.total # Count /\ snd.at = "end"
      BY <1>1, <1>2, <3>1, <3>2 DEF EndsHaveResults
    <3> QED BY <1>1, <3>1, <3>2, <3>3 DEF EndsHaveResults
  <2> QED BY <1>1, <1>4, <1>6, <2>1 DEF EndsHaveResults
<1> QED BY <1>1, <1>4, <1>6, <1>13, <1>14, <1>15 DEF IoInv, IoNoAssertFires

(***************************************************************************)
(* The other steps move no bytes.                                          *)
(***************************************************************************)
LEMMA OtherStepsKeepIoInv ==
    ASSUME IoInv, SendEnds \/ SendResumes \/ SendTimesOut \/ SenderCloses
                  \/ RecvEnds \/ RecvResumes \/ RecvTimesOut \/ Resets \/ UNCHANGED ioVars
    PROVE  IoInv'
<1>1. IoTypeOK /\ IoNoAssertFires /\ BytesInOrder /\ EndsHaveResults
  BY DEF IoInv
<1>2. /\ snd \in LoopType /\ rcv \in LoopType /\ Count \in Nat
      /\ snd.total \in 0 .. Count /\ rcv.total \in 0 .. Count
  BY <1>1, IoAllAssumption DEF IoTypeOK, LoopType
<1>3. ASSUME UNCHANGED <<rcv, pipe, got, reset>>, snd' \in LoopType, snd'.total = snd.total,
             closed' \in BOOLEAN, snd'.at # "abort", snd'.at = "end" <=> snd'.res # "none",
             closed' => snd'.at = "end", snd'.res = "OK" => snd.total = Count,
             rcv.res = "EOF" => closed' /\ snd'.res \notin {"none", "OK"}
      PROVE  IoInv'
  BY <1>1, <1>3 DEF IoInv, IoTypeOK, IoNoAssertFires, BytesInOrder, EndsHaveResults
<1>4. ASSUME UNCHANGED <<snd, pipe, got, reset, closed>>, rcv' \in LoopType,
             rcv'.total = rcv.total, rcv'.at # "abort", rcv'.at = "end" <=> rcv'.res # "none",
             rcv'.res = "OK" => rcv.total = Count, rcv'.res # "EOF"
      PROVE  IoInv'
  BY <1>1, <1>4 DEF IoInv, IoTypeOK, IoNoAssertFires, BytesInOrder, EndsHaveResults
<1>5. CASE SendEnds
  <2>1. snd' = [snd EXCEPT !.at = "end", !.res = "OK"] /\ snd.at = "round" /\ snd.total = Count
        /\ UNCHANGED <<rcv, pipe, got, closed, reset>>
    BY <1>2, <1>5 DEF SendEnds, Ended
  <2>2. ~ closed /\ rcv.res # "EOF" /\ closed \in BOOLEAN
    BY <1>1, <2>1 DEF EndsHaveResults, IoTypeOK
  <2>3. snd' \in LoopType /\ snd'.total = snd.total /\ snd'.at = "end" /\ snd'.res = "OK"
    BY <1>2, <2>1 DEF LoopType
  <2> QED BY <1>3, <2>1, <2>2, <2>3
<1>6. CASE SendResumes
  <2>1. snd' = [snd EXCEPT !.at = "round"] /\ snd.at = "wait"
        /\ UNCHANGED <<rcv, pipe, got, closed, reset>>
    BY <1>6 DEF SendResumes
  <2>2. ~ closed /\ snd.res = "none" /\ rcv.res # "EOF" /\ closed \in BOOLEAN
    BY <1>1, <2>1 DEF EndsHaveResults, IoTypeOK
  <2>3. snd' \in LoopType /\ snd'.total = snd.total /\ snd'.at = "round" /\ snd'.res = "none"
    BY <1>2, <2>1, <2>2 DEF LoopType
  <2> QED BY <1>3, <2>1, <2>2, <2>3
<1>7. CASE SendTimesOut
  <2>1. snd' = [snd EXCEPT !.at = "end", !.res = "ETIMEDOUT"] /\ snd.at = "wait"
        /\ UNCHANGED <<rcv, pipe, got, closed, reset>>
    BY <1>7 DEF SendTimesOut, Ended
  <2>2. ~ closed /\ rcv.res # "EOF" /\ closed \in BOOLEAN
    BY <1>1, <2>1 DEF EndsHaveResults, IoTypeOK
  <2>3. snd' \in LoopType /\ snd'.total = snd.total /\ snd'.at = "end" /\ snd'.res = "ETIMEDOUT"
    BY <1>2, <2>1 DEF LoopType
  <2> QED BY <1>3, <2>1, <2>2, <2>3
<1>8. CASE SenderCloses
  <2>1. snd.at = "end" /\ closed' = TRUE /\ UNCHANGED <<snd, rcv, pipe, got, reset>>
    BY <1>8 DEF SenderCloses
  <2> QED BY <1>1, <1>2, <1>3, <2>1 DEF EndsHaveResults
<1>9. CASE RecvEnds
  <2>1. rcv' = [rcv EXCEPT !.at = "end", !.res = "OK"] /\ rcv.total = Count
        /\ UNCHANGED <<snd, pipe, got, closed, reset>>
    BY <1>2, <1>9 DEF RecvEnds, Ended
  <2>2. rcv' \in LoopType /\ rcv'.total = rcv.total /\ rcv'.at = "end" /\ rcv'.res = "OK"
    BY <1>2, <2>1 DEF LoopType
  <2> QED BY <1>4, <2>1, <2>2
<1>10. CASE RecvResumes
  <2>1. rcv' = [rcv EXCEPT !.at = "round"] /\ rcv.at = "wait"
        /\ UNCHANGED <<snd, pipe, got, closed, reset>>
    BY <1>10 DEF RecvResumes
  <2>2. rcv.res = "none"
    BY <1>1, <2>1 DEF EndsHaveResults
  <2>3. rcv' \in LoopType /\ rcv'.total = rcv.total /\ rcv'.at = "round" /\ rcv'.res = "none"
    BY <1>2, <2>1, <2>2 DEF LoopType
  <2> QED BY <1>4, <2>1, <2>3
<1>11. CASE RecvTimesOut
  <2>1. rcv' = [rcv EXCEPT !.at = "end", !.res = "ETIMEDOUT"]
        /\ UNCHANGED <<snd, pipe, got, closed, reset>>
    BY <1>11 DEF RecvTimesOut, Ended
  <2>2. rcv' \in LoopType /\ rcv'.total = rcv.total /\ rcv'.at = "end" /\ rcv'.res = "ETIMEDOUT"
    BY <1>2, <2>1 DEF LoopType
  <2> QED BY <1>4, <2>1, <2>2
<1>12. CASE Resets
  <2>1. reset' = TRUE /\ pipe' = <<>> /\ UNCHANGED <<snd, rcv, got, closed>>
    BY <1>12 DEF Resets
  <2>2. IoTypeOK'
    <3>1. pipe' \in Seq(Byte) /\ Len(pipe') <= Capacity
      BY <2>1, IoAllAssumption
    <3> QED BY <1>1, <2>1, <3>1 DEF IoTypeOK
  <2> QED BY <1>1, <2>1, <2>2 DEF IoInv, IoNoAssertFires, BytesInOrder, EndsHaveResults
<1>13. CASE UNCHANGED ioVars
  BY <1>1, <1>13 DEF ioVars, IoInv, IoTypeOK, IoNoAssertFires, BytesInOrder, EndsHaveResults
<1> QED BY <1>5, <1>6, <1>7, <1>8, <1>9, <1>10, <1>11, <1>12, <1>13

LEMMA IoInvariant == IoSpec => []IoInv
<1>1. ASSUME IoInv, [IoNext]_ioVars PROVE IoInv'
  BY <1>1, SendRoundKeepsIoInv, RecvRoundKeepsIoInv, OtherStepsKeepIoInv
     DEF IoNext, Sender, Receiver
<1> QED BY InitiallyIoInv, <1>1, PTL DEF IoSpec

-----------------------------------------------------------------------------
(***************************************************************************)
(* The locals of both loops and the kernel's buffer keep their type: no    *)
(* loop transfers more than it was asked for (minimk_io_writeall, _readall)*)
(***************************************************************************)
THEOREM IoTypeCorrect == IoSpec => []IoTypeOK
<1>1. IoInv => IoTypeOK
  BY DEF IoInv
<1> QED BY IoInvariant, <1>1, PTL

(***************************************************************************)
(* The assertions of minimk_io_writeall and minimk_io_readall on what send *)
(* and recv returned never fire with the wrappers of send(2) and recv(2).  *)
(***************************************************************************)
THEOREM IoAssertionFree == IoSpec => []IoNoAssertFires
<1>1. IoInv => IoNoAssertFires
  BY DEF IoInv
<1> QED BY IoInvariant, <1>1, PTL

(***************************************************************************)
(* Bytes arrive once and in order, through short transfers, interruptions  *)
(* and suspensions (minimk_io_writeall and minimk_io_readall).             *)
(***************************************************************************)
LEMMA PrefixOfMessage ==
    ASSUME NEW n \in 0 .. Count, NEW s \in Seq(Byte), Len(s) = n,
           \A i \in 1 .. n : s[i] = i
    PROVE  s = SubSeq(Message, 1, n)
<1>1. /\ Chunk(0, n) \in Seq(Byte) /\ Len(Chunk(0, n)) = n
      /\ \A i \in 1 .. n : Chunk(0, n)[i] = 0 + i
  BY ChunkBytes, IoAllAssumption
<1>2. Chunk(0, n) = SubSeq(Message, 1, n)
  BY IoAllAssumption DEF Chunk
<1>3. s = Chunk(0, n)
  BY <1>1, SeqEqual, IoAllAssumption
<1> QED BY <1>2, <1>3

THEOREM BytesArriveOnce == IoSpec => []ExactlyOnce
<1>1. ASSUME IoInv PROVE ExactlyOnce
  <2>1. /\ rcv.total \in 0 .. Count /\ snd.total \in 0 .. Count /\ Count \in Nat
        /\ got \in Seq(Byte) /\ pipe \in Seq(Byte)
    BY <1>1, IoAllAssumption DEF IoInv, IoTypeOK, LoopType
  <2>2. Len(got) = rcv.total /\ \A i \in 1 .. rcv.total : got[i] = i
    BY <1>1 DEF IoInv, BytesInOrder
  <2>3. got = SubSeq(Message, 1, rcv.total)
    BY <2>1, <2>2, PrefixOfMessage
  <2>4. ASSUME ~ reset PROVE got \o pipe = SubSeq(Message, 1, snd.total)
    <3>1. /\ rcv.total + Len(pipe) = snd.total
          /\ \A i \in 1 .. Len(pipe) : pipe[i] = rcv.total + i
      BY <1>1, <2>4 DEF IoInv, BytesInOrder
    <3> DEFINE both == got \o pipe
    <3>2. /\ both \in Seq(Byte) /\ Len(both) = Len(got) + Len(pipe)
          /\ \A i \in 1 .. Len(got) : both[i] = got[i]
          /\ \A i \in Len(got) + 1 .. Len(got) + Len(pipe) : both[i] = pipe[i - Len(got)]
      BY <2>1, ConcatBytes
    <3> HIDE DEF both
    <3>3. Len(pipe) \in Nat
      BY <2>1
    <3>4. ASSUME NEW i \in 1 .. snd.total PROVE both[i] = i
      <4>1. CASE i <= rcv.total
        <5>1. i \in 1 .. rcv.total /\ i \in 1 .. Len(got)
          BY <2>1, <2>2, <4>1
        <5> QED BY <5>1, <2>2, <3>2
      <4>2. CASE i > rcv.total
        <5>1. i - Len(got) \in 1 .. Len(pipe) /\ i \in Len(got) + 1 .. Len(got) + Len(pipe)
          BY <2>1, <2>2, <3>1, <3>3, <4>2
        <5> QED BY <5>1, <2>1, <2>2, <3>1, <3>2
      <4> QED BY <4>1, <4>2, <2>1
    <3>5. both = SubSeq(Message, 1, snd.total)
      BY <2>1, <2>2, <3>1, <3>2, <3>4, PrefixOfMessage
    <3> QED BY <3>5 DEF both
  <2> QED BY <2>3, <2>4 DEF ExactlyOnce
<1> QED BY IoInvariant, <1>1, PTL

(***************************************************************************)
(* A sendall or recvall that returns zero transferred everything, and one  *)
(* that finds the end of file has a sender that gave up.                   *)
(***************************************************************************)
THEOREM SuccessIsComplete == IoSpec => []SuccessMeansAll
<1>1. ASSUME IoInv PROVE SuccessMeansAll
  <2>1. /\ rcv.total \in 0 .. Count /\ Count \in Nat /\ got \in Seq(Byte)
        /\ Len(got) = rcv.total /\ \A i \in 1 .. rcv.total : got[i] = i
    BY <1>1, IoAllAssumption DEF IoInv, IoTypeOK, LoopType, BytesInOrder
  <2>2. Message \in Seq(Byte) /\ Len(Message) = Count /\ \A i \in 1 .. Count : Message[i] = i
    BY IoAllAssumption DEF Message, Byte
  <2>3. rcv.total = Count => got = Message
    BY <2>1, <2>2, SeqEqual
  <2>4. rcv.total < Count => got # Message
    BY <2>1, <2>2
  <2> QED BY <1>1, <2>3, <2>4 DEF IoInv, EndsHaveResults, SuccessMeansAll
<1> QED BY IoInvariant, <1>1, PTL
=============================================================================
