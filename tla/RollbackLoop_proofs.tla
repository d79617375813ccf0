------------------------- MODULE RollbackLoop_proofs -------------------------
(***************************************************************************)
(* The rollback loop is correct for any number of players, any inputs, any *)
(* prediction window, check distance, input delay and number of frames:    *)
(* after the requests of a step are executed the world is the simulation   *)
(* of exactly the inputs the session has settled on.                       *)
(***************************************************************************)
EXTENDS RollbackLoop, GgrsSnapshots_proofs

\* The frame the world is at after a request other than Load, or after a Load.
NextFrame(r) == IF r.type = "Advance" THEN r.frame + 1 ELSE r.frame

\* The requests s take the world from frame a to frame b, with the inputs inp.
Path(s, a, b, inp) ==
    /\ s \in Seq(Requests)
    /\ s = <<>> => a = b
    /\ s # <<>> => s[1].frame = a /\ NextFrame(s[Len(s)]) = b
    /\ \A i \in 1 .. Len(s) :
          /\ s[i].type # "Load"
          /\ s[i].type = "Advance" => s[i].frame < Len(inp) /\ s[i].input = inp[s[i].frame + 1]
    /\ \A i \in 1 .. (Len(s) - 1) : s[i + 1].frame = NextFrame(s[i])

LoadPending == requests # <<>> /\ Head(requests).type = "Load"

\* The pending requests take the world to the session's current frame.
RequestsLeadToCurrent ==
    \/ Path(requests, frame, current, inputs)
    \/ /\ LoadPending
       /\ HasSaved
       /\ Head(requests).frame \in 0 .. current
       /\ Path(Tail(requests), Head(requests).frame, current, inputs)

\* The world is the state of `frame` on the session's timeline.
WorldOnTimeline ==
    /\ world.origin = sessions - 1
    /\ ~ LoadPending => world.inputs = SubSeq(inputs, 1, frame)

NoSnapshotAhead ==
    HasSaved => \A i \in 1 .. Len(store.entries) : store.entries[i].frame <= frame

\* The inductive invariant.
IInv ==
    /\ TypeOK
    /\ Descending(store.entries)
    /\ kind = "None" => requests = <<>>
    /\ (kind # "None" /\ ~ panicked) =>
          /\ frame <= current
          /\ RequestsLeadToCurrent
          /\ WorldOnTimeline
          /\ NoSnapshotAhead
          /\ SnapshotsOnTimeline

----------------------------------------------------------------------------
(* Lists of requests *)

(***************************************************************************)
(* Members of Requests have a type and a frame.                            *)
(***************************************************************************)
LEMMA RequestFields ==
    ASSUME NEW r \in Requests
    PROVE  /\ r.type \in {"Save", "Load", "Advance"}
           /\ r.frame \in 0 .. MaxFrame
           /\ r.type = "Advance" => r.input \in PlayerInputs
           /\ NextFrame(r) \in Nat
<1>1. CASE r \in [type : {"Save", "Load"}, frame : 0 .. MaxFrame]
  BY <1>1 DEF NextFrame
<1>2. CASE r \in [type : {"Advance"}, frame : 0 .. MaxFrame, input : PlayerInputs]
  BY <1>2 DEF NextFrame
<1> QED BY <1>1, <1>2 DEF Requests

(***************************************************************************)
(* Two lists of requests that meet in one frame, one after the other.      *)
(***************************************************************************)
LEMMA PathConcat ==
    ASSUME NEW s, NEW t, NEW a, NEW b, NEW c, NEW inp,
           Path(s, a, b, inp), Path(t, b, c, inp)
    PROVE  Path(s \o t, a, c, inp)
<1> DEFINE u == s \o t
<1>1. s \in Seq(Requests) /\ t \in Seq(Requests)
  BY DEF Path
<1>2. /\ Len(s) \in Nat /\ Len(t) \in Nat
      /\ (s = <<>> <=> Len(s) = 0) /\ (t = <<>> <=> Len(t) = 0)
  BY <1>1, LenProperties, EmptySeq
<1>3. /\ u \in Seq(Requests)
      /\ Len(u) = Len(s) + Len(t)
      /\ \A i \in 1 .. Len(s) : u[i] = s[i]
      /\ \A i \in 1 .. Len(t) : u[Len(s) + i] = t[i]
  <2>1. /\ u \in Seq(Requests)
        /\ Len(u) = Len(s) + Len(t)
        /\ \A i \in 1 .. Len(s) + Len(t) : u[i] = IF i <= Len(s) THEN s[i] ELSE t[i - Len(s)]
    BY <1>1, ConcatProperties
  <2>2. \A i \in 1 .. Len(t) : /\ Len(s) + i \in 1 .. Len(s) + Len(t)
                               /\ ~ (Len(s) + i <= Len(s))
                               /\ Len(s) + i - Len(s) = i
    BY <1>2
  <2>3. \A i \in 1 .. Len(s) : i \in 1 .. Len(s) + Len(t) /\ i <= Len(s)
    BY <1>2
  <2> HIDE DEF u
  <2> QED BY <2>1, <2>2, <2>3
<1> HIDE DEF u
<1>4. u = <<>> => a = c
  <2> SUFFICES ASSUME u = <<>> PROVE a = c
    OBVIOUS
  <2>1. Len(u) = 0
    BY <1>3, EmptySeq
  <2>2. s = <<>> /\ t = <<>>
    BY <1>2, <1>3, <2>1
  <2> QED BY <2>2 DEF Path
<1>5. u # <<>> => u[1].frame = a
  <2> SUFFICES ASSUME u # <<>> PROVE u[1].frame = a
    OBVIOUS
  <2>1. Len(u) \in Nat \ {0}
    BY <1>3, EmptySeq
  <2>2. CASE s = <<>>
    <3>1. Len(t) # 0 /\ Len(s) = 0 /\ Len(s) + 1 = 1 /\ 1 \in 1 .. Len(t)
      BY <1>2, <1>3, <2>1, <2>2
    <3>2. u[1] = t[1] /\ t # <<>> /\ a = b
      BY <1>2, <1>3, <2>2, <3>1 DEF Path
    <3> QED BY <3>2 DEF Path
  <2>3. CASE s # <<>>
    <3>1. u[1] = s[1]
      BY <1>2, <1>3, <2>3
    <3> QED BY <2>3, <3>1 DEF Path
  <2> QED BY <2>2, <2>3
<1>6. u # <<>> => NextFrame(u[Len(u)]) = c
  <2> SUFFICES ASSUME u # <<>> PROVE NextFrame(u[Len(u)]) = c
    OBVIOUS
  <2>1. Len(u) \in Nat \ {0}
    BY <1>3, EmptySeq
  <2>2. CASE t = <<>>
    <3>1. Len(t) = 0 /\ Len(u) = Len(s) /\ s # <<>> /\ Len(s) \in 1 .. Len(s)
      BY <1>2, <1>3, <2>1, <2>2
    <3>2. u[Len(u)] = s[Len(s)] /\ b = c
      BY <1>3, <2>2, <3>1 DEF Path
    <3> QED BY <3>1, <3>2 DEF Path
  <2>3. CASE t # <<>>
    <3>1. u[Len(u)] = t[Len(t)]
      BY <1>2, <1>3, <2>3
    <3> QED BY <2>3, <3>1 DEF Path
  <2> QED BY <2>2, <2>3
<1>7. ASSUME NEW i \in 1 .. Len(u)
      PROVE  /\ u[i].type # "Load"
             /\ u[i].type = "Advance" => u[i].frame < Len(inp) /\ u[i].input = inp[u[i].frame + 1]
  <2>1. CASE i <= Len(s)
    <3>1. i \in 1 .. Len(s) /\ u[i] = s[i]
      BY <1>2, <1>3, <2>1
    <3> QED BY <3>1 DEF Path
  <2>2. CASE i > Len(s)
    <3>1. i - Len(s) \in 1 .. Len(t) /\ Len(s) + (i - Len(s)) = i
      BY <1>2, <1>3, <2>2
    <3>2. u[i] = t[i - Len(s)]
      BY <1>3, <3>1
    <3> QED BY <3>1, <3>2 DEF Path
  <2> QED BY <1>2, <1>3, <2>1, <2>2
<1>8. ASSUME NEW i \in 1 .. (Len(u) - 1) PROVE u[i + 1].frame = NextFrame(u[i])
  <2>1. CASE i < Len(s)
    <3>1. i \in 1 .. (Len(s) - 1) /\ u[i] = s[i] /\ u[i + 1] = s[i + 1]
      BY <1>2, <1>3, <2>1
    <3> QED BY <3>1 DEF Path
  <2>2. CASE i = Len(s)
    <3>1. s # <<>> /\ t # <<>> /\ u[i] = s[Len(s)] /\ u[i + 1] = t[1]
      BY <1>2, <1>3, <2>2
    <3> QED BY <3>1 DEF Path
  <2>3. CASE i > Len(s)
    <3> DEFINE j == i - Len(s)
    <3>1. j \in 1 .. (Len(t) - 1) /\ j \in 1 .. Len(t) /\ j + 1 \in 1 .. Len(t)
          /\ Len(s) + j = i /\ Len(s) + (j + 1) = i + 1
      BY <1>2, <1>3, <2>3
    <3> HIDE DEF j
    <3>2. u[i] = t[j] /\ u[i + 1] = t[j + 1]
      BY <1>3, <3>1
    <3> QED BY <3>1, <3>2 DEF Path
  <2> QED BY <1>2, <1>3, <2>1, <2>2, <2>3
<1>9. Path(u, a, c, inp)
  BY <1>3, <1>4, <1>5, <1>6, <1>7, <1>8 DEF Path
<1> QED BY <1>9 DEF u

(***************************************************************************)
(* What is left after the first request.                                   *)
(***************************************************************************)
LEMMA PathTail ==
    ASSUME NEW s, NEW a, NEW b, NEW inp, Path(s, a, b, inp), s # <<>>
    PROVE  /\ Head(s) \in Requests
           /\ Head(s).frame = a
           /\ Head(s).type # "Load"
           /\ Head(s).type = "Advance" => a < Len(inp) /\ Head(s).input = inp[a + 1]
           /\ Path(Tail(s), NextFrame(Head(s)), b, inp)
<1> DEFINE t == Tail(s)
<1>1. /\ s \in Seq(Requests) /\ Len(s) \in Nat \ {0}
      /\ Head(s) = s[1] /\ 1 \in 1 .. Len(s)
      /\ Head(s) \in Requests
      /\ t \in Seq(Requests)
      /\ Len(t) = Len(s) - 1
      /\ \A i \in 1 .. Len(t) : t[i] = s[i + 1]
  <2>1. s \in Seq(Requests)
    BY DEF Path
  <2>2. Len(s) \in Nat \ {0}
    BY <2>1, EmptySeq
  <2> QED BY <2>1, <2>2, HeadTailProperties
<1>2. /\ Head(s).frame = a
      /\ Head(s).type # "Load"
      /\ Head(s).type = "Advance" => a < Len(inp) /\ Head(s).input = inp[a + 1]
  BY <1>1 DEF Path
<1> HIDE DEF t
<1>3. t = <<>> => NextFrame(Head(s)) = b
  <2> SUFFICES ASSUME t = <<>> PROVE NextFrame(Head(s)) = b
    OBVIOUS
  <2>1. Len(s) = 1
    BY <1>1, EmptySeq
  <2> QED BY <1>1, <2>1 DEF Path
<1>4. t # <<>> => t[1].frame = NextFrame(Head(s)) /\ NextFrame(t[Len(t)]) = b
  <2> SUFFICES ASSUME t # <<>> PROVE t[1].frame = NextFrame(Head(s)) /\ NextFrame(t[Len(t)]) = b
    OBVIOUS
  <2>1. Len(t) \in Nat \ {0}
    BY <1>1, EmptySeq
  <2>2. t[1] = s[2] /\ 1 \in 1 .. (Len(s) - 1) /\ 1 + 1 = 2 /\ t[Len(t)] = s[Len(s)]
    BY <1>1, <2>1
  <2> QED BY <1>1, <2>2 DEF Path
<1>5. \A i \in 1 .. Len(t) :
         /\ t[i].type # "Load"
         /\ t[i].type = "Advance" => t[i].frame < Len(inp) /\ t[i].input = inp[t[i].frame + 1]
  <2> SUFFICES ASSUME NEW i \in 1 .. Len(t)
               PROVE  /\ t[i].type # "Load"
                      /\ t[i].type = "Advance" =>
                            t[i].frame < Len(inp) /\ t[i].input = inp[t[i].frame + 1]
    OBVIOUS
  <2>1. i + 1 \in 1 .. Len(s) /\ t[i] = s[i + 1]
    BY <1>1
  <2> QED BY <2>1 DEF Path
<1>6. \A i \in 1 .. (Len(t) - 1) : t[i + 1].frame = NextFrame(t[i])
  <2> SUFFICES ASSUME NEW i \in 1 .. (Len(t) - 1) PROVE t[i + 1].frame = NextFrame(t[i])
    OBVIOUS
  <2>1. i + 1 \in 1 .. (Len(s) - 1) /\ t[i] = s[i + 1] /\ t[i + 1] = s[(i + 1) + 1]
    BY <1>1
  <2> QED BY <2>1 DEF Path
<1>7. Path(t, NextFrame(Head(s)), b, inp)
  BY <1>1, <1>3, <1>4, <1>5, <1>6 DEF Path
<1> QED BY <1>1, <1>2, <1>7 DEF t

(***************************************************************************)
(* No requests, no change of frame.                                        *)
(***************************************************************************)
LEMMA NoRequests ==
    ASSUME NEW a, NEW inp
    PROVE  Path(<<>>, a, a, inp)
BY EmptySeq DEF Path

(***************************************************************************)
(* One save leaves the frame as it is.                                     *)
(***************************************************************************)
LEMMA SavePath ==
    ASSUME NEW f \in 0 .. MaxFrame, NEW inp
    PROVE  Path(<<SaveGameState(f)>>, f, f, inp)
<1> DEFINE r == SaveGameState(f)
<1>1. r \in Requests /\ r.type = "Save" /\ r.frame = f
  BY DEF SaveGameState, Requests
<1> HIDE DEF r
<1>2. <<r>> \in Seq(Requests) /\ Len(<<r>>) = 1 /\ <<r>>[1] = r /\ <<r>> # <<>>
  BY <1>1
<1>3. Path(<<r>>, f, f, inp)
  BY <1>1, <1>2 DEF Path, NextFrame
<1> QED BY <1>3 DEF r

(***************************************************************************)
(* What an AdvanceFrame request says.                                      *)
(***************************************************************************)
LEMMA AdvanceRequest ==
    ASSUME NEW f \in 0 .. MaxFrame, NEW x \in PlayerInputs
    PROVE  /\ AdvanceFrame(f, x) \in Requests
           /\ AdvanceFrame(f, x).type = "Advance"
           /\ AdvanceFrame(f, x).frame = f
           /\ AdvanceFrame(f, x).input = x
BY DEF AdvanceFrame, Requests

(***************************************************************************)
(* One advance simulates one frame.                                        *)
(***************************************************************************)
LEMMA AdvancePath ==
    ASSUME NEW f \in 0 .. MaxFrame, NEW inp \in Seq(PlayerInputs), f < Len(inp)
    PROVE  Path(<<AdvanceFrame(f, inp[f + 1])>>, f, f + 1, inp)
<1> DEFINE r == AdvanceFrame(f, inp[f + 1])
<1>1. inp[f + 1] \in PlayerInputs
  <2>1. f + 1 \in 1 .. Len(inp)
    BY LenProperties
  <2> QED BY <2>1, ElementOfSeq
<1>2. r \in Requests /\ r.type = "Advance" /\ r.frame = f /\ r.input = inp[f + 1]
  BY <1>1 DEF AdvanceFrame, Requests
<1> HIDE DEF r
<1>3. <<r>> \in Seq(Requests) /\ Len(<<r>>) = 1 /\ <<r>>[1] = r /\ <<r>> # <<>>
  BY <1>2
<1>4. Path(<<r>>, f, f + 1, inp)
  BY <1>2, <1>3 DEF Path, NextFrame
<1> QED BY <1>4 DEF r

(***************************************************************************)
(* The resimulation after a rollback alternates advances and saves, and    *)
(* takes the world from the loaded frame to the current one.               *)
(***************************************************************************)
LEMMA ResimulationPath ==
    ASSUME NEW from \in 0 .. MaxFrame, NEW to \in 0 .. MaxFrame, from < to,
           NEW inp \in Seq(PlayerInputs), to <= Len(inp)
    PROVE  Path(Resimulation(from, to, inp), from, to, inp)
<1> DEFINE n == 2 * (to - from)
           s == Resimulation(from, to, inp)
           at(i) == from + (i \div 2)
<1>1. n \in Nat \ {0} /\ n \div 2 = to - from /\ n % 2 = 0
  OBVIOUS
<1>2. \A i \in 1 .. n : s[i] = IF i % 2 = 1 THEN AdvanceFrame(at(i), inp[at(i) + 1])
                                            ELSE SaveGameState(at(i))
  BY DEF Resimulation
<1>3. \A i \in 1 .. n : /\ at(i) \in from .. to
                        /\ i % 2 = 1 => at(i) < to
  OBVIOUS
<1>4. \A i \in 1 .. n : i % 2 = 1 => inp[at(i) + 1] \in PlayerInputs
  <2> SUFFICES ASSUME NEW i \in 1 .. n, i % 2 = 1 PROVE inp[at(i) + 1] \in PlayerInputs
    OBVIOUS
  <2>1. at(i) + 1 \in 1 .. Len(inp)
    BY <1>3, LenProperties
  <2> QED BY <2>1, ElementOfSeq
<1>5. \A i \in 1 .. n : /\ s[i] \in Requests
                        /\ s[i].frame = at(i)
                        /\ i % 2 = 1 => s[i].type = "Advance" /\ s[i].input = inp[at(i) + 1]
                        /\ i % 2 # 1 => s[i].type = "Save"
  <2> SUFFICES ASSUME NEW i \in 1 .. n
               PROVE  /\ s[i] \in Requests
                      /\ s[i].frame = at(i)
                      /\ i % 2 = 1 => s[i].type = "Advance" /\ s[i].input = inp[at(i) + 1]
                      /\ i % 2 # 1 => s[i].type = "Save"
    OBVIOUS
  <2> DEFINE f == at(i)
  <2>1. f \in 0 .. MaxFrame
    BY <1>3, RollbackLoopAssumption
  <2> HIDE DEF f
  <2>2. CASE i % 2 = 1
    <3>1. s[i] = AdvanceFrame(f, inp[f + 1]) /\ inp[f + 1] \in PlayerInputs
      BY <1>2, <1>4, <2>2 DEF f
    <3> HIDE DEF s
    <3>2. s[i] \in Requests /\ s[i].frame = f /\ s[i].type = "Advance" /\ s[i].input = inp[f + 1]
      BY <2>1, <3>1 DEF AdvanceFrame, Requests
    <3> QED BY <2>2, <3>2 DEF f
  <2>3. CASE i % 2 # 1
    <3>1. s[i] = SaveGameState(f)
      BY <1>2, <2>3 DEF f
    <3> HIDE DEF s
    <3>2. s[i] \in Requests /\ s[i].frame = f /\ s[i].type = "Save"
      BY <2>1, <3>1 DEF SaveGameState, Requests
    <3> QED BY <2>3, <3>2 DEF f
  <2> QED BY <2>2, <2>3
<1>6. s \in Seq(Requests) /\ Len(s) = n /\ s # <<>>
  <2>1. s = [i \in 1 .. n |-> s[i]]
    BY DEF Resimulation
  <2>2. s \in [1 .. n -> Requests]
    BY <1>5, <2>1
  <2> HIDE DEF s, n
  <2>3. s \in Seq(Requests) /\ Len(s) = n
    BY <1>1, <2>2
  <2> QED BY <1>1, <2>3, EmptySeq
<1> HIDE DEF s
<1>7. s[1].frame = from /\ NextFrame(s[Len(s)]) = to
  <2>1. 1 \in 1 .. n /\ n \in 1 .. n /\ at(1) = from /\ at(n) = to /\ n % 2 # 1
    BY <1>1
  <2> HIDE DEF n, at
  <2>2. s[1].frame = from /\ s[n].frame = to /\ s[n].type = "Save"
    BY <1>5, <2>1
  <2> QED BY <1>6, <2>2 DEF NextFrame
<1>8. \A i \in 1 .. Len(s) :
         /\ s[i].type # "Load"
         /\ s[i].type = "Advance" => s[i].frame < Len(inp) /\ s[i].input = inp[s[i].frame + 1]
  <2> SUFFICES ASSUME NEW i \in 1 .. n
               PROVE  /\ s[i].type # "Load"
                      /\ s[i].type = "Advance" =>
                            s[i].frame < Len(inp) /\ s[i].input = inp[s[i].frame + 1]
    BY <1>6
  <2>1. i % 2 = 1 => at(i) < Len(inp)
    BY <1>3, LenProperties
  <2>2. CASE i % 2 = 1
    BY <1>5, <2>1, <2>2
  <2>3. CASE i % 2 # 1
    BY <1>5, <2>3
  <2> QED BY <2>2, <2>3
<1>9. \A i \in 1 .. (Len(s) - 1) : s[i + 1].frame = NextFrame(s[i])
  <2> SUFFICES ASSUME NEW i \in 1 .. (n - 1) PROVE s[i + 1].frame = NextFrame(s[i])
    BY <1>6
  <2>1. i \in 1 .. n /\ i + 1 \in 1 .. n
    BY <1>1
  <2>2. CASE i % 2 = 1
    <3>1. at(i + 1) = at(i) + 1
      BY <2>2
    <3> QED BY <1>5, <2>1, <2>2, <3>1 DEF NextFrame
  <2>3. CASE i % 2 # 1
    <3>1. at(i + 1) = at(i)
      BY <2>3
    <3> QED BY <1>5, <2>1, <2>3, <3>1 DEF NextFrame
  <2> QED BY <2>2, <2>3
<1>10. Path(s, from, to, inp)
  BY <1>6, <1>7, <1>8, <1>9 DEF Path
<1> QED BY <1>10 DEF s

(***************************************************************************)
(* The advance at the end of a step, unless the session waits.             *)
(***************************************************************************)
LEMMA ProceedPath ==
    ASSUME NEW c \in 0 .. MaxFrame, NEW advance \in BOOLEAN, NEW inp \in Seq(PlayerInputs),
           advance => c < Len(inp)
    PROVE  Path(Proceed(c, advance, inp), c, IF advance THEN c + 1 ELSE c, inp)
<1>1. CASE advance
  BY <1>1, AdvancePath DEF Proceed
<1>2. CASE ~ advance
  BY <1>2, NoRequests DEF Proceed
<1> QED BY <1>1, <1>2

(***************************************************************************)
(* A spectator only advances.                                              *)
(***************************************************************************)
LEMMA SpectatorPath ==
    ASSUME NEW c \in Nat, NEW n \in Nat \ {0}, c + n <= MaxFrame, MaxFrame \in Nat,
           NEW inp \in Seq(PlayerInputs), c + n <= Len(inp)
    PROVE  Path(SpectatorRequests(c, n, inp), c, c + n, inp)
<1> DEFINE s == SpectatorRequests(c, n, inp)
<1>1. \A i \in 1 .. n : s[i] = AdvanceFrame(c + i - 1, inp[c + i])
  BY DEF SpectatorRequests
<1>2. \A i \in 1 .. n : /\ c + i - 1 \in 0 .. MaxFrame
                        /\ c + i - 1 < Len(inp)
                        /\ inp[c + i] \in PlayerInputs
                        /\ (c + i - 1) + 1 = c + i
  <2> SUFFICES ASSUME NEW i \in 1 .. n
               PROVE  /\ c + i - 1 \in 0 .. MaxFrame
                      /\ c + i - 1 < Len(inp)
                      /\ inp[c + i] \in PlayerInputs
                      /\ (c + i - 1) + 1 = c + i
    OBVIOUS
  <2>1. c + i \in 1 .. Len(inp) /\ Len(inp) \in Nat
    BY LenProperties
  <2> QED BY <2>1, ElementOfSeq
<1>3. \A i \in 1 .. n : /\ s[i] \in Requests
                        /\ s[i].type = "Advance"
                        /\ s[i].frame = c + i - 1
                        /\ s[i].input = inp[c + i]
  <2> HIDE DEF s
  <2> SUFFICES ASSUME NEW i \in 1 .. n
               PROVE  /\ s[i] \in Requests
                      /\ s[i].type = "Advance"
                      /\ s[i].frame = c + i - 1
                      /\ s[i].input = inp[c + i]
    OBVIOUS
  <2>1. s[i] = AdvanceFrame(c + i - 1, inp[c + i])
    BY <1>1
  <2>2. c + i - 1 \in 0 .. MaxFrame /\ inp[c + i] \in PlayerInputs
    BY <1>2
  <2> QED BY <2>1, <2>2, AdvanceRequest
<1>4. s \in Seq(Requests) /\ Len(s) = n /\ s # <<>>
  <2>1. s = [i \in 1 .. n |-> s[i]]
    BY DEF SpectatorRequests
  <2>2. s \in [1 .. n -> Requests]
    BY <1>3, <2>1
  <2> HIDE DEF s
  <2>3. s \in Seq(Requests) /\ Len(s) = n
    BY <2>2
  <2> QED BY <2>3, EmptySeq
<1> HIDE DEF s
<1>5. s[1].frame = c /\ NextFrame(s[Len(s)]) = c + n
  BY <1>3, <1>4 DEF NextFrame
<1>6. \A i \in 1 .. (Len(s) - 1) : s[i + 1].frame = NextFrame(s[i])
  <2> SUFFICES ASSUME NEW i \in 1 .. (n - 1) PROVE s[i + 1].frame = NextFrame(s[i])
    BY <1>4
  <2>1. i \in 1 .. n /\ i + 1 \in 1 .. n /\ c + (i + 1) - 1 = (c + i - 1) + 1
    OBVIOUS
  <2> QED BY <1>3, <2>1 DEF NextFrame
<1>7. \A i \in 1 .. Len(s) :
         /\ s[i].type # "Load"
         /\ s[i].type = "Advance" => s[i].frame < Len(inp) /\ s[i].input = inp[s[i].frame + 1]
  BY <1>2, <1>3, <1>4
<1>8. Path(s, c, c + n, inp)
  BY <1>4, <1>5, <1>6, <1>7 DEF Path
<1> QED BY <1>8 DEF s

(***************************************************************************)
(* The first request of a list, and the others.                            *)
(***************************************************************************)
LEMMA HeadOfConcat ==
    ASSUME NEW r \in Requests, NEW t \in Seq(Requests)
    PROVE  /\ <<r>> \o t # <<>>
           /\ Head(<<r>> \o t) = r
           /\ Tail(<<r>> \o t) = t
<1>1. <<r>> \in Seq(Requests) /\ Len(<<r>>) = 1 /\ <<r>>[1] = r
  OBVIOUS
<1> DEFINE u == <<r>> \o t
<1>2. /\ u \in Seq(Requests)
      /\ Len(u) = 1 + Len(t)
      /\ \A i \in 1 .. 1 + Len(t) : u[i] = IF i <= 1 THEN <<r>>[i] ELSE t[i - 1]
  BY <1>1, ConcatProperties
<1>3. Len(t) \in Nat
  BY LenProperties
<1> HIDE DEF u
<1>4. u # <<>>
  BY <1>2, <1>3, EmptySeq
<1>5. Head(u) = r
  BY <1>1, <1>2, <1>3, <1>4, HeadTailProperties
<1>6. /\ Tail(u) \in Seq(Requests)
      /\ Len(Tail(u)) = Len(u) - 1
      /\ \A i \in 1 .. Len(Tail(u)) : Tail(u)[i] = u[i + 1]
  BY <1>2, <1>4, HeadTailProperties
<1>7. \A i \in 1 .. Len(t) : Tail(u)[i] = t[i]
  BY <1>2, <1>3, <1>6
<1>8. Tail(u) = t
  <2>1. Len(Tail(u)) = Len(t)
    BY <1>2, <1>3, <1>6
  <2> QED BY <1>6, <1>7, <2>1, SeqEqual
<1> QED BY <1>4, <1>5, <1>8 DEF u

(***************************************************************************)
(* A step without rollback goes from the current frame on; one with a      *)
(* rollback starts with the load and then goes from the loaded frame on.   *)
(***************************************************************************)
LEMMA CorrectAndSavePath ==
    ASSUME NEW c \in 0 .. MaxFrame, NEW load \in {NullFrame} \union (0 .. (c - 1)),
           NEW advance \in BOOLEAN, NEW inp \in Seq(PlayerInputs), c <= Len(inp),
           advance => c < Len(inp)
    PROVE  LET s == CorrectAndSave(c, load, inp) \o Proceed(c, advance, inp)
               n == IF advance THEN c + 1 ELSE c
           IN  /\ load = NullFrame => Path(s, c, n, inp) /\ s # <<>> /\ Head(s) = SaveGameState(c)
               /\ load # NullFrame => /\ s \in Seq(Requests)
                                      /\ s # <<>>
                                      /\ Head(s) = LoadGameState(load)
                                      /\ Path(Tail(s), load, n, inp)
<1> DEFINE t == Proceed(c, advance, inp)
           n == IF advance THEN c + 1 ELSE c
<1>1. Path(t, c, n, inp)
  BY ProceedPath
<1>2. t \in Seq(Requests)
  BY <1>1 DEF Path
<1> HIDE DEF t, n
<1>3. CASE load = NullFrame
  <2>1. SaveGameState(c) \in Requests
    BY DEF SaveGameState, Requests
  <2>2. Path(<<SaveGameState(c)>> \o t, c, n, inp)
    BY <1>1, SavePath, PathConcat
  <2>3. <<SaveGameState(c)>> \o t # <<>> /\ Head(<<SaveGameState(c)>> \o t) = SaveGameState(c)
    BY <1>2, <2>1, HeadOfConcat
  <2> QED BY <1>3, <2>2, <2>3 DEF CorrectAndSave, t, n
<1>4. CASE load # NullFrame
  <2> DEFINE r == LoadGameState(load)
             re == Resimulation(load, c, inp)
  <2>1. load \in 0 .. MaxFrame /\ load < c
    BY <1>4, RollbackLoopAssumption
  <2>2. r \in Requests
    BY <2>1 DEF LoadGameState, Requests
  <2>3. Path(re, load, c, inp)
    BY <2>1, ResimulationPath
  <2>4. re \in Seq(Requests) /\ <<r>> \in Seq(Requests)
    BY <2>2, <2>3 DEF Path
  <2> HIDE DEF re, r
  <2>5. Path(re \o t, load, n, inp)
    BY <1>1, <2>3, PathConcat
  <2>6. re \o t \in Seq(Requests)
    BY <2>5 DEF Path
  <2>7. (<<r>> \o re) \o t = <<r>> \o (re \o t)
    BY <1>2, <2>4, ConcatAssociative
  <2> DEFINE s == <<r>> \o (re \o t)
  <2>8. s # <<>> /\ Head(s) = r /\ Tail(s) = re \o t
    BY <2>2, <2>6, HeadOfConcat
  <2>9. s \in Seq(Requests)
    BY <2>4, <2>6, ConcatProperties
  <2> QED BY <1>4, <2>5, <2>7, <2>8, <2>9 DEF CorrectAndSave, t, n, r, re
<1> QED BY <1>3, <1>4

(***************************************************************************)
(* The first frame of a P2P session is saved once more, and never with a   *)
(* rollback in the same step.                                              *)
(***************************************************************************)
LEMMA P2PPath ==
    ASSUME NEW c \in 0 .. MaxFrame, NEW load \in {NullFrame} \union (0 .. (c - 1)),
           NEW advance \in BOOLEAN, NEW inp \in Seq(PlayerInputs), c <= Len(inp),
           advance => c < Len(inp)
    PROVE  LET s == P2PRequests(c, load, advance, inp)
               n == IF advance THEN c + 1 ELSE c
           IN  /\ load = NullFrame => Path(s, c, n, inp) /\ s # <<>> /\ Head(s) = SaveGameState(c)
               /\ load # NullFrame => /\ s \in Seq(Requests)
                                      /\ s # <<>>
                                      /\ Head(s) = LoadGameState(load)
                                      /\ Path(Tail(s), load, n, inp)
<1> DEFINE cs == CorrectAndSave(c, load, inp)
           pr == Proceed(c, advance, inp)
           first == IF c = 0 THEN <<SaveGameState(0)>> ELSE <<>>
           n == IF advance THEN c + 1 ELSE c
<1>1. /\ load = NullFrame => Path(cs \o pr, c, n, inp) /\ cs \o pr # <<>>
                             /\ Head(cs \o pr) = SaveGameState(c)
      /\ load # NullFrame => /\ cs \o pr \in Seq(Requests)
                             /\ cs \o pr # <<>>
                             /\ Head(cs \o pr) = LoadGameState(load)
                             /\ Path(Tail(cs \o pr), load, n, inp)
  BY CorrectAndSavePath
<1>2. cs \in Seq(Requests) /\ pr \in Seq(Requests) /\ first \in Seq(Requests)
  <2>1. pr \in Seq(Requests)
    BY ProceedPath DEF Path
  <2>2. first \in Seq(Requests)
    <3>1. SaveGameState(0) \in Requests
      BY RollbackLoopAssumption DEF SaveGameState, Requests
    <3>2. <<SaveGameState(0)>> \in Seq(Requests) /\ <<>> \in Seq(Requests)
      BY <3>1
    <3> QED BY <3>2
  <2>3. CASE load = NullFrame
    <3>1. SaveGameState(c) \in Requests
      BY DEF SaveGameState, Requests
    <3> QED BY <2>1, <2>2, <2>3, <3>1 DEF CorrectAndSave
  <2>4. CASE load # NullFrame
    <3>1. load \in 0 .. MaxFrame /\ load < c
      BY <2>4, RollbackLoopAssumption
    <3>2. LoadGameState(load) \in Requests
      BY <3>1 DEF LoadGameState, Requests
    <3>3. Resimulation(load, c, inp) \in Seq(Requests)
      BY <3>1, ResimulationPath DEF Path
    <3>4. <<LoadGameState(load)>> \in Seq(Requests)
      BY <3>2
    <3>5. <<LoadGameState(load)>> \o Resimulation(load, c, inp) \in Seq(Requests)
      BY <3>3, <3>4, ConcatProperties
    <3> QED BY <2>1, <2>2, <2>4, <3>5 DEF CorrectAndSave
  <2> QED BY <2>3, <2>4
<1>3. P2PRequests(c, load, advance, inp) = first \o (cs \o pr)
  <2>1. P2PRequests(c, load, advance, inp) = (first \o cs) \o pr
    BY DEF P2PRequests
  <2> HIDE DEF first, cs, pr
  <2> QED BY <1>2, <2>1, ConcatAssociative
<1> HIDE DEF cs, pr, n
<1>4. CASE c # 0
  <2>1. cs \o pr \in Seq(Requests)
    BY <1>2, ConcatProperties
  <2>2. first \o (cs \o pr) = cs \o pr
    <3>1. first = <<>>
      BY <1>4
    <3> HIDE DEF first
    <3> QED BY <2>1, <3>1, ConcatEmptySeq
  <2> HIDE DEF first
  <2> QED BY <1>1, <1>3, <2>2 DEF n
<1>5. CASE c = 0
  <2>1. load = NullFrame
    BY <1>5
  <2>2. cs \o pr \in Seq(Requests) /\ SaveGameState(0) \in Requests
    BY <1>2, RollbackLoopAssumption, ConcatProperties DEF SaveGameState, Requests
  <2>3. Path(<<SaveGameState(0)>> \o (cs \o pr), 0, n, inp)
    BY <1>1, <1>5, <2>1, SavePath, PathConcat
  <2>4. /\ <<SaveGameState(0)>> \o (cs \o pr) # <<>>
        /\ Head(<<SaveGameState(0)>> \o (cs \o pr)) = SaveGameState(0)
    BY <2>2, HeadOfConcat
  <2>5. first = <<SaveGameState(0)>>
    BY <1>5
  <2> HIDE DEF first
  <2> QED BY <1>3, <1>5, <2>1, <2>3, <2>4, <2>5 DEF n
<1> QED BY <1>4, <1>5

----------------------------------------------------------------------------
(* The session's decisions *)

(***************************************************************************)
(* A non-empty set of integers from -1 on has a smallest element.          *)
(***************************************************************************)
LEMMA SmallestFacts ==
    ASSUME NEW S \in SUBSET Int, S # {}, \A x \in S : x >= -1
    PROVE  Smallest(S) \in S /\ \A y \in S : Smallest(S) <= y
<1> DEFINE T == {x + 1 : x \in S}
<1>1. T \in SUBSET Nat /\ T # {}
  <2>1. \A x \in S : x \in Int /\ x >= -1
    OBVIOUS
  <2>2. \A x \in S : x + 1 \in Nat
    BY <2>1
  <2> QED BY <2>2
<1>2. PICK m \in T : \A y \in T : m <= y
  <2> HIDE DEF T
  <2> QED BY <1>1, LeastNatural
<1>3. PICK x \in S : m = x + 1
  BY <1>2
<1>4. \A y \in S : x <= y
  <2> SUFFICES ASSUME NEW y \in S PROVE x <= y
    OBVIOUS
  <2>1. y + 1 \in T
    OBVIOUS
  <2>2. x + 1 <= y + 1
    BY <1>2, <1>3, <2>1
  <2> QED BY <2>2
<1> QED BY <1>4 DEF Smallest

(***************************************************************************)
(* The confirmed frame of a P2P session is within the input delay of the   *)
(* last frame.                                                             *)
(***************************************************************************)
LEMMA ConfirmedFrameType ==
    ASSUME TypeOK
    PROVE  ConfirmedFrame(localLast) \in -1 .. (MaxFrame + InputDelay)
<1> DEFINE S == {localLast} \union {Len(received[p]) - 1 : p \in Remotes \ gone}
<1>1. \A p \in Remotes : Len(received[p]) \in Nat
  BY LenProperties DEF TypeOK
<1>2. localLast \in -1 .. (MaxFrame + InputDelay) /\ MaxFrame \in Nat /\ InputDelay \in Nat
  BY RollbackLoopAssumption DEF TypeOK
<1>3. S \in SUBSET Int /\ localLast \in S /\ S # {} /\ \A x \in S : x >= -1
  BY <1>1, <1>2
<1> HIDE DEF S
<1>4. Smallest(S) \in Int /\ Smallest(S) >= -1 /\ Smallest(S) <= localLast
  BY <1>3, SmallestFacts
<1>5. ConfirmedFrame(localLast) = Smallest(S)
  BY DEF ConfirmedFrame, S
<1> QED BY <1>2, <1>4, <1>5

(***************************************************************************)
(* So is what handle_requests puts into ConfirmedFrameCount.               *)
(***************************************************************************)
LEMMA SessionConfirmedFrameType ==
    ASSUME TypeOK, kind # "None"
    PROVE  SessionConfirmedFrame \in -1 .. (MaxFrame + InputDelay)
<1>1. kind \in {"P2P", "SyncTest", "Spectator"}
  BY RollbackLoopAssumption DEF TypeOK
<1>2. CASE kind = "P2P"
  BY <1>2, ConfirmedFrameType DEF SessionConfirmedFrame
<1>3. CASE kind = "SyncTest"
  <2>1. SessionConfirmedFrame = IF frame >= CheckDistance THEN frame - CheckDistance ELSE confirmed
    BY <1>3 DEF SessionConfirmedFrame
  <2> QED BY <2>1, RollbackLoopAssumption DEF TypeOK
<1>4. CASE kind = "Spectator"
  <2>1. SessionConfirmedFrame = frame
    BY <1>4 DEF SessionConfirmedFrame
  <2> QED BY <2>1, RollbackLoopAssumption DEF TypeOK
<1> QED BY <1>1, <1>2, <1>3, <1>4

(***************************************************************************)
(* The first wrong frame is one that has been simulated.                   *)
(***************************************************************************)
LEMMA FirstIncorrectType ==
    ASSUME TypeOK
    PROVE  FirstIncorrect \in {NullFrame} \union (0 .. (current - 1))
<1>1. Incorrect \subseteq 0 .. (current - 1)
  BY DEF Incorrect
<1>2. CASE Incorrect = {}
  BY <1>2 DEF FirstIncorrect
<1>3. CASE Incorrect # {}
  <2>1. Incorrect \in SUBSET Int /\ \A x \in Incorrect : x >= -1
    BY <1>1
  <2>2. Smallest(Incorrect) \in Incorrect
    BY <1>3, <2>1, SmallestFacts
  <2> QED BY <1>1, <1>3, <2>2 DEF FirstIncorrect
<1> QED BY <1>2, <1>3

(***************************************************************************)
(* What GGRS hands out for a player, received or predicted, is an input.   *)
(***************************************************************************)
LEMMA InputOfType ==
    ASSUME TypeOK, NEW p \in Remotes, NEW f \in Nat
    PROVE  InputOf(p, f) \in Inputs \union {Disconnected}
<1>1. received[p] \in Seq(Inputs) /\ Len(received[p]) \in Nat
  BY LenProperties DEF TypeOK
<1>2. CASE f < Len(received[p])
  <2>1. f + 1 \in 1 .. Len(received[p])
    BY <1>1, <1>2
  <2>2. received[p][f + 1] \in Inputs
    BY <1>1, <2>1, ElementOfSeq
  <2>3. InputOf(p, f) = received[p][f + 1]
    BY <1>1, <1>2 DEF InputOf
  <2> QED BY <2>2, <2>3
<1>3. CASE f >= Len(received[p]) /\ p \in gone
  <2>1. InputOf(p, f) = Disconnected
    BY <1>1, <1>3 DEF InputOf
  <2> QED BY <2>1
<1>4. CASE f >= Len(received[p]) /\ p \notin gone
  <2>1. InputOf(p, f) = IF received[p] = <<>> THEN DefaultInput
                                              ELSE received[p][Len(received[p])]
    BY <1>1, <1>4 DEF InputOf
  <2>2. CASE received[p] = <<>>
    BY <2>1, <2>2, RollbackLoopAssumption
  <2>3. CASE received[p] # <<>>
    <3>1. Len(received[p]) \in 1 .. Len(received[p])
      BY <1>1, <2>3, EmptySeq
    <3>2. received[p][Len(received[p])] \in Inputs
      BY <1>1, <3>1, ElementOfSeq
    <3> QED BY <2>1, <2>3, <3>2
  <2> QED BY <2>2, <2>3
<1> QED BY <1>1, <1>2, <1>3, <1>4

(***************************************************************************)
(* A correction keeps the inputs of the frames before it.                  *)
(***************************************************************************)
LEMMA CorrectedFacts ==
    ASSUME TypeOK, NEW from \in 0 .. current, NEW to \in {current - 1, current}
    PROVE  /\ Corrected(from, to) \in Seq(PlayerInputs)
           /\ Len(Corrected(from, to)) = to + 1
           /\ \A i \in 1 .. from : i <= to + 1 => Corrected(from, to)[i] = inputs[i]
<1> DEFINE n == to + 1
           s == Corrected(from, to)
<1>1. n \in Nat /\ current \in Nat /\ from <= n
  BY RollbackLoopAssumption DEF TypeOK
<1>2. \A i \in 1 .. n : s[i] = IF i <= from THEN inputs[i] ELSE [p \in Remotes |-> InputOf(p, i - 1)]
  BY DEF Corrected
<1>3. \A i \in 1 .. n : s[i] \in PlayerInputs
  <2> SUFFICES ASSUME NEW i \in 1 .. n PROVE s[i] \in PlayerInputs
    OBVIOUS
  <2> HIDE DEF s
  <2>1. CASE i <= from
    <3>1. inputs \in Seq(PlayerInputs) /\ i \in 1 .. Len(inputs)
      BY <1>1, <2>1 DEF TypeOK
    <3> QED BY <1>2, <2>1, <3>1, ElementOfSeq
  <2>2. CASE ~ (i <= from)
    <3>1. i - 1 \in Nat
      BY <1>1
    <3>2. \A p \in Remotes : InputOf(p, i - 1) \in Inputs \union {Disconnected}
      BY <3>1, InputOfType
    <3> QED BY <1>2, <2>2, <3>2 DEF PlayerInputs
  <2> QED BY <2>1, <2>2
<1>4. s \in [1 .. n -> PlayerInputs]
  <2>1. s = [i \in 1 .. n |-> s[i]]
    BY DEF Corrected
  <2> HIDE DEF s, n
  <2> QED BY <1>3, <2>1
<1> HIDE DEF s, n
<1>5. s \in Seq(PlayerInputs) /\ Len(s) = n
  BY <1>1, <1>4
<1>6. \A i \in 1 .. from : i <= n => s[i] = inputs[i]
  <2> SUFFICES ASSUME NEW i \in 1 .. from, i <= n PROVE s[i] = inputs[i]
    OBVIOUS
  <2>1. i \in 1 .. n /\ i <= from
    BY <1>1
  <2> QED BY <1>2, <2>1
<1> QED BY <1>5, <1>6 DEF s, n

(***************************************************************************)
(* Two input sequences that agree up to frame f have the same prefix.      *)
(***************************************************************************)
LEMMA SamePrefix ==
    ASSUME NEW p \in Seq(PlayerInputs), NEW q \in Seq(PlayerInputs), NEW f \in Nat,
           f <= Len(p), f <= Len(q), \A i \in 1 .. f : p[i] = q[i]
    PROVE  SubSeq(p, 1, f) = SubSeq(q, 1, f)
<1>1. f \in 0 .. Len(p) /\ f \in 0 .. Len(q) /\ 1 \in 1 .. (Len(p) + 1) /\ 1 \in 1 .. (Len(q) + 1)
      /\ 1 <= f + 1
  BY LenProperties
<1>2. /\ SubSeq(p, 1, f) \in Seq(PlayerInputs) /\ SubSeq(q, 1, f) \in Seq(PlayerInputs)
      /\ Len(SubSeq(p, 1, f)) = f /\ Len(SubSeq(q, 1, f)) = f
      /\ \A i \in 1 .. f : SubSeq(p, 1, f)[i] = p[i] /\ SubSeq(q, 1, f)[i] = q[i]
  <2>1. f - 1 + 1 = f /\ \A i \in 1 .. f : 1 + i - 1 = i
    OBVIOUS
  <2> QED BY <1>1, <2>1, SliceFacts
<1>3. \A i \in 1 .. Len(SubSeq(p, 1, f)) : SubSeq(p, 1, f)[i] = SubSeq(q, 1, f)[i]
  BY <1>2
<1> QED BY <1>2, <1>3, SeqEqual

(***************************************************************************)
(* Simulating one more frame.                                              *)
(***************************************************************************)
LEMMA NextPrefix ==
    ASSUME NEW p \in Seq(PlayerInputs), NEW f \in Nat, f < Len(p)
    PROVE  Append(SubSeq(p, 1, f), p[f + 1]) = SubSeq(p, 1, f + 1)
<1> DEFINE a == SubSeq(p, 1, f)
           b == SubSeq(p, 1, f + 1)
<1>1. /\ f \in 0 .. Len(p) /\ f + 1 \in 0 .. Len(p) /\ f + 1 \in 1 .. Len(p)
      /\ 1 \in 1 .. (Len(p) + 1) /\ 1 <= f + 1 /\ 1 <= (f + 1) + 1
      /\ f - 1 + 1 = f /\ (f + 1) - 1 + 1 = f + 1
  BY LenProperties
<1>2. a \in Seq(PlayerInputs) /\ Len(a) = f /\ \A i \in 1 .. f : a[i] = p[i]
  <2>1. \A i \in 1 .. f : 1 + i - 1 = i
    OBVIOUS
  <2> QED BY <1>1, <2>1, SliceFacts
<1>3. b \in Seq(PlayerInputs) /\ Len(b) = f + 1 /\ \A i \in 1 .. (f + 1) : b[i] = p[i]
  <2>1. \A i \in 1 .. (f + 1) : 1 + i - 1 = i
    OBVIOUS
  <2> QED BY <1>1, <2>1, SliceFacts
<1>4. p[f + 1] \in PlayerInputs
  BY <1>1, ElementOfSeq
<1> HIDE DEF a, b
<1> DEFINE c == Append(a, p[f + 1])
<1>5. /\ c \in Seq(PlayerInputs) /\ Len(c) = f + 1
      /\ \A i \in 1 .. f : c[i] = a[i]
      /\ c[f + 1] = p[f + 1]
  BY <1>2, <1>4, AppendProperties
<1> HIDE DEF c
<1>6. \A i \in 1 .. (f + 1) : c[i] = b[i]
  <2> SUFFICES ASSUME NEW i \in 1 .. (f + 1) PROVE c[i] = b[i]
    OBVIOUS
  <2>1. CASE i = f + 1
    BY <1>3, <1>5, <2>1
  <2>2. CASE i # f + 1
    <3>1. i \in 1 .. f
      BY <2>2
    <3> QED BY <1>2, <1>3, <1>5, <3>1
  <2> QED BY <2>1, <2>2
<1>7. c = b
  BY <1>3, <1>5, <1>6, SeqEqual
<1> QED BY <1>7 DEF a, b, c

(***************************************************************************)
(* A list of requests that is a path starts with no Load.                  *)
(***************************************************************************)
LEMMA NoLoadOnPath ==
    ASSUME NEW s, NEW a, NEW b, NEW inp, Path(s, a, b, inp), s # <<>>
    PROVE  Head(s).type # "Load"
BY PathTail

----------------------------------------------------------------------------
(* The inductive invariant *)

(***************************************************************************)
(* The invariant holds when the app has been built.                        *)
(***************************************************************************)
LEMMA InitIInv == Init => IInv
<1> SUFFICES ASSUME Init PROVE IInv
  OBVIOUS
<1>1. TypeOK
  <2>1. EmptySnapshots \in [entries : Seq([frame : 0 .. MaxFrame, data : Worlds]), depth : Nat]
    BY DEF EmptySnapshots, DefaultFps
  <2>2. world \in Worlds
    BY RollbackLoopAssumption DEF Init, Origin, Worlds
  <2>3. received \in [Remotes -> Seq(Inputs)]
    BY DEF Init
  <2>4. /\ frame \in 0 .. MaxFrame /\ current \in 0 .. MaxFrame /\ window \in Nat
        /\ confirmed \in -1 .. (MaxFrame + InputDelay)
        /\ localLast \in -1 .. (MaxFrame + InputDelay)
        /\ sessions \in 0 .. MaxSessions
    BY RollbackLoopAssumption DEF Init, NullFrame
  <2>5. requests \in Seq(Requests) /\ inputs \in Seq(PlayerInputs) /\ Len(inputs) = current
    BY DEF Init
  <2>6. store \in [entries : Seq([frame : 0 .. MaxFrame, data : Worlds]), depth : Nat]
    BY <2>1 DEF Init
  <2>7. panicked \in BOOLEAN /\ kind \in Kinds \union {"None"} /\ gone \in SUBSET Remotes
    BY DEF Init
  <2> QED BY <2>2, <2>3, <2>4, <2>5, <2>6, <2>7 DEF TypeOK
<1>2. Descending(store.entries)
  BY DEF Init, EmptySnapshots, Descending
<1>3. kind = "None" /\ requests = <<>>
  BY DEF Init
<1> QED BY <1>1, <1>2, <1>3 DEF IInv

(***************************************************************************)
(* One step of the schedule with a session: what a new batch of requests   *)
(* has to satisfy.  `from` is the frame up to which the inputs stay.       *)
(***************************************************************************)
LEMMA BatchStep ==
    ASSUME IInv, Idle, kind # "None",
           UNCHANGED <<bevyVars, kind, sessions, peerVars>>,
           localLast' \in -1 .. (MaxFrame + InputDelay),
           current' \in current .. MaxFrame,
           inputs' \in Seq(PlayerInputs), Len(inputs') = current',
           NEW from \in 0 .. current,
           \A i \in 1 .. from : inputs'[i] = inputs[i],
           requests' \in Seq(Requests),
           \/ from = current /\ Path(requests', current, current', inputs')
           \/ /\ requests' # <<>>
              /\ Head(requests') = LoadGameState(from)
              /\ kind \in {"P2P", "SyncTest"}
              /\ current > 0
              /\ Path(Tail(requests'), from, current', inputs'),
           (kind \in {"P2P", "SyncTest"} /\ current = 0) =>
               requests' # <<>> /\ Head(requests') = SaveGameState(0)
    PROVE  IInv'
<1>1. /\ TypeOK /\ current \in 0 .. MaxFrame /\ MaxFrame \in Nat /\ current \in Nat
      /\ inputs \in Seq(PlayerInputs) /\ Len(inputs) = current
      /\ current' \in 0 .. MaxFrame /\ current <= current' /\ current' \in Nat
  BY RollbackLoopAssumption DEF IInv, TypeOK
<1>2. /\ ~ panicked /\ requests = <<>>
      /\ frame <= current /\ RequestsLeadToCurrent /\ WorldOnTimeline
      /\ NoSnapshotAhead /\ SnapshotsOnTimeline /\ Descending(store.entries)
  BY DEF IInv, Idle
<1>3. frame = current
  BY <1>2 DEF RequestsLeadToCurrent, LoadPending, Path
<1>4. /\ frame' = frame /\ confirmed' = confirmed /\ window' = window /\ store' = store
      /\ world' = world /\ panicked' = panicked /\ kind' = kind /\ sessions' = sessions
      /\ received' = received /\ gone' = gone
  BY DEF bevyVars, peerVars
<1>5. TypeOK'
  BY <1>1, <1>4 DEF TypeOK
<1>6. HasSaved' => HasSaved
  <2> SUFFICES ASSUME HasSaved' PROVE HasSaved
    OBVIOUS
  <2>1. kind \in {"P2P", "SyncTest"}
    BY <1>4 DEF HasSaved
  <2>2. current # 0
    BY <2>1 DEF HasSaved
  <2> QED BY <1>1, <1>2, <2>1, <2>2 DEF HasSaved
<1>7. \A f \in Nat : f <= from => SubSeq(inputs', 1, f) = SubSeq(inputs, 1, f)
  <2> SUFFICES ASSUME NEW f \in Nat, f <= from PROVE SubSeq(inputs', 1, f) = SubSeq(inputs, 1, f)
    OBVIOUS
  <2>1. f <= Len(inputs) /\ f <= Len(inputs') /\ \A i \in 1 .. f : inputs'[i] = inputs[i]
    BY <1>1
  <2> QED BY <1>1, <2>1, SamePrefix
<1>8. NoSnapshotAhead'
  BY <1>2, <1>4, <1>6 DEF NoSnapshotAhead
<1>9. ASSUME Trusted' \in Int, Trusted' <= from
      PROVE  SnapshotsOnTimeline'
  <2> SUFFICES ASSUME HasSaved', ~ panicked',
                      NEW i \in Positions(store.entries), store.entries[i].frame <= Trusted'
               PROVE  store.entries[i].data =
                         [origin |-> sessions - 1, inputs |-> SubSeq(inputs', 1, store.entries[i].frame)]
    BY <1>4 DEF SnapshotsOnTimeline
  <2>1. i \in 1 .. Len(store.entries) /\ store.entries[i].frame \in Nat
    <3>1. store.entries \in Seq([frame : 0 .. MaxFrame, data : Worlds])
      BY <1>1 DEF TypeOK
    <3>2. store.entries[i] \in [frame : 0 .. MaxFrame, data : Worlds]
      BY <3>1, ElementOfSeq DEF Positions
    <3> QED BY <1>1, <3>2 DEF Positions
  <2>2. HasSaved /\ store.entries[i].frame <= frame /\ Trusted = frame
    BY <1>2, <1>6, <2>1 DEF NoSnapshotAhead, Trusted
  <2>3. store.entries[i].data =
           [origin |-> sessions - 1, inputs |-> SubSeq(inputs, 1, store.entries[i].frame)]
    BY <1>2, <2>2 DEF SnapshotsOnTimeline
  <2>4. store.entries[i].frame <= from
    BY <1>9, <2>1
  <2> QED BY <1>7, <2>1, <2>3, <2>4
<1>10. CASE from = current /\ Path(requests', current, current', inputs')
  <2>1. RequestsLeadToCurrent'
    BY <1>3, <1>4, <1>10 DEF RequestsLeadToCurrent
  <2>2. ~ LoadPending'
    BY <1>10, NoLoadOnPath DEF LoadPending
  <2>3. WorldOnTimeline'
    BY <1>1, <1>2, <1>3, <1>4, <1>7, <1>10 DEF WorldOnTimeline, LoadPending
  <2>4. Trusted' = from
    BY <1>3, <1>4, <1>10, <2>2 DEF Trusted, LoadPending
  <2>5. SnapshotsOnTimeline'
    BY <1>1, <1>9, <2>4
  <2> QED BY <1>1, <1>2, <1>3, <1>4, <1>5, <1>8, <2>1, <2>3, <2>5 DEF IInv
<1>11. CASE /\ requests' # <<>>
            /\ Head(requests') = LoadGameState(from)
            /\ kind \in {"P2P", "SyncTest"}
            /\ current > 0
            /\ Path(Tail(requests'), from, current', inputs')
  <2>1. Head(requests').type = "Load" /\ Head(requests').frame = from
        /\ Head(requests') # SaveGameState(0)
    BY <1>11 DEF LoadGameState, SaveGameState
  <2>2. LoadPending' /\ HasSaved'
    BY <1>1, <1>4, <1>11, <2>1 DEF LoadPending, HasSaved
  <2>3. RequestsLeadToCurrent'
    <3>1. from \in 0 .. current'
      BY <1>1
    <3> QED BY <1>11, <2>1, <2>2, <3>1 DEF RequestsLeadToCurrent
  <2>4. WorldOnTimeline'
    BY <1>2, <1>4, <2>2 DEF WorldOnTimeline
  <2>5. Trusted' = from
    BY <1>11, <2>1 DEF Trusted
  <2>6. SnapshotsOnTimeline'
    BY <1>1, <1>9, <2>5
  <2> QED BY <1>1, <1>2, <1>3, <1>4, <1>5, <1>8, <2>3, <2>4, <2>6 DEF IInv
<1> QED BY <1>10, <1>11

(***************************************************************************)
(* run_p2p keeps the invariant, with and without a rollback.               *)
(***************************************************************************)
LEMMA RunP2PStep ==
    ASSUME IInv, RunP2P
    PROVE  IInv'
<1> DEFINE load    == FirstIncorrect
           advance == FramesAhead < MaxPrediction /\ current < MaxFrame
           from    == IF load = NullFrame THEN current ELSE load
           to      == IF advance THEN current ELSE current - 1
           n       == IF advance THEN current + 1 ELSE current
<1>1. /\ Idle /\ kind = "P2P" /\ inputs' = Corrected(from, to) /\ current' = to + 1
      /\ localLast' = current + InputDelay
      /\ requests' = P2PRequests(current, load, advance, inputs')
      /\ UNCHANGED <<bevyVars, kind, sessions, peerVars>>
  BY DEF RunP2P
<1>2. /\ TypeOK /\ current \in 0 .. MaxFrame /\ MaxFrame \in Nat /\ InputDelay \in Nat
      /\ current \in Nat /\ NullFrame = -1
  BY RollbackLoopAssumption DEF IInv, TypeOK, NullFrame
<1>3. load \in {NullFrame} \union (0 .. (current - 1))
  BY <1>2, FirstIncorrectType
<1>4. advance \in BOOLEAN /\ (advance => current < MaxFrame)
  OBVIOUS
<1> HIDE DEF load, advance
<1>5. from \in 0 .. current /\ to \in {current - 1, current} /\ n = to + 1
      /\ n \in current .. MaxFrame /\ (advance => current < n)
  BY <1>2, <1>3, <1>4
<1>6. /\ inputs' \in Seq(PlayerInputs) /\ Len(inputs') = n
      /\ \A i \in 1 .. from : inputs'[i] = inputs[i]
  <2>1. /\ inputs' \in Seq(PlayerInputs) /\ Len(inputs') = to + 1
        /\ \A i \in 1 .. from : i <= to + 1 => inputs'[i] = inputs[i]
    <3> HIDE DEF from, to, n
    <3> QED BY <1>1, <1>2, <1>5, CorrectedFacts
  <2> QED BY <1>2, <1>5, <2>1
<1> DEFINE s == P2PRequests(current, load, advance, inputs')
<1>7. /\ load = NullFrame => Path(s, current, n, inputs') /\ s # <<>>
                             /\ Head(s) = SaveGameState(current)
      /\ load # NullFrame => /\ s \in Seq(Requests)
                             /\ s # <<>>
                             /\ Head(s) = LoadGameState(load)
                             /\ Path(Tail(s), load, n, inputs')
  <2>1. current <= Len(inputs') /\ (advance => current < Len(inputs'))
    BY <1>2, <1>5, <1>6
  <2> QED BY <1>2, <1>3, <1>4, <1>6, <2>1, P2PPath
<1> HIDE DEF s
<1>8. requests' = s /\ current' = n /\ kind = "P2P"
  BY <1>1, <1>5 DEF s
<1>9. current' \in current .. MaxFrame /\ Len(inputs') = current'
      /\ localLast' \in -1 .. (MaxFrame + InputDelay)
  BY <1>1, <1>2, <1>5, <1>6, <1>8
<1>10. CASE load = NullFrame
  <2>1. s \in Seq(Requests) /\ Path(requests', current, current', inputs') /\ from = current
        /\ requests' # <<>> /\ Head(requests') = SaveGameState(current)
    BY <1>7, <1>8, <1>10 DEF Path
  <2> HIDE DEF from, to, n
  <2> QED BY <1>1, <1>5, <1>6, <1>8, <1>9, <2>1, BatchStep
<1>11. CASE load # NullFrame
  <2>1. current > 0 /\ from = load
    BY <1>2, <1>3, <1>11
  <2>2. /\ requests' \in Seq(Requests) /\ requests' # <<>>
        /\ Head(requests') = LoadGameState(from)
        /\ Path(Tail(requests'), from, current', inputs')
    BY <1>7, <1>8, <1>11, <2>1
  <2> HIDE DEF from, to, n
  <2> QED BY <1>1, <1>2, <1>5, <1>6, <1>8, <1>9, <2>1, <2>2, BatchStep
<1> QED BY <1>10, <1>11

(***************************************************************************)
(* run_synctest keeps the invariant.                                       *)
(***************************************************************************)
LEMMA RunSyncTestStep ==
    ASSUME IInv, NEW input \in [Remotes -> Inputs], RunSyncTest(input)
    PROVE  IInv'
<1> DEFINE load == IF current > CheckDistance THEN current - CheckDistance ELSE NullFrame
           s    == SyncTestRequests(current, load, inputs')
<1>1. /\ Idle /\ kind = "SyncTest" /\ current < MaxFrame /\ inputs' = Append(inputs, input)
      /\ current' = current + 1 /\ requests' = s
      /\ UNCHANGED <<bevyVars, kind, sessions, peerVars, localLast>>
  BY DEF RunSyncTest
<1>2. /\ TypeOK /\ current \in 0 .. MaxFrame /\ MaxFrame \in Nat /\ CheckDistance \in Nat \ {0}
      /\ current \in Nat /\ NullFrame = -1
      /\ inputs \in Seq(PlayerInputs) /\ Len(inputs) = current
      /\ localLast \in -1 .. (MaxFrame + InputDelay)
  BY RollbackLoopAssumption DEF IInv, TypeOK, NullFrame
<1>3. load \in {NullFrame} \union (0 .. (current - 1)) /\ load \in {NullFrame} \union (1 .. current)
  BY <1>2
<1>4. input \in PlayerInputs
  BY DEF PlayerInputs
<1>5. /\ inputs' \in Seq(PlayerInputs) /\ Len(inputs') = current'
      /\ \A i \in 1 .. current : inputs'[i] = inputs[i]
  BY <1>1, <1>2, <1>4, AppendProperties
<1>6. s = CorrectAndSave(current, load, inputs') \o Proceed(current, TRUE, inputs')
  BY DEF SyncTestRequests
<1> HIDE DEF load
<1>7. /\ load = NullFrame => Path(s, current, current + 1, inputs') /\ s # <<>>
                             /\ Head(s) = SaveGameState(current)
      /\ load # NullFrame => /\ s \in Seq(Requests)
                             /\ s # <<>>
                             /\ Head(s) = LoadGameState(load)
                             /\ Path(Tail(s), load, current + 1, inputs')
  <2>1. current <= Len(inputs') /\ current < Len(inputs')
    BY <1>1, <1>2, <1>5
  <2> HIDE DEF s
  <2> QED BY <1>2, <1>3, <1>5, <1>6, <2>1, CorrectAndSavePath
<1> HIDE DEF s
<1>8. current' \in current .. MaxFrame /\ localLast' \in -1 .. (MaxFrame + InputDelay)
  BY <1>1, <1>2
<1>9. CASE load = NullFrame
  <2>1. /\ requests' \in Seq(Requests) /\ Path(requests', current, current', inputs')
        /\ requests' # <<>> /\ Head(requests') = SaveGameState(current)
    BY <1>1, <1>7, <1>9 DEF Path
  <2>2. current \in 0 .. current
    BY <1>2
  <2> QED BY <1>1, <1>2, <1>5, <1>8, <2>1, <2>2, BatchStep
<1>10. CASE load # NullFrame
  <2>1. /\ current > 0 /\ load \in 0 .. current
        /\ \A i \in 1 .. load : inputs'[i] = inputs[i]
    BY <1>2, <1>3, <1>5, <1>10
  <2>2. /\ requests' \in Seq(Requests) /\ requests' # <<>>
        /\ Head(requests') = LoadGameState(load)
        /\ Path(Tail(requests'), load, current', inputs')
    BY <1>1, <1>7, <1>10
  <2> QED BY <1>1, <1>2, <1>5, <1>8, <2>1, <2>2, BatchStep
<1> QED BY <1>9, <1>10

(***************************************************************************)
(* run_spectator keeps the invariant.                                      *)
(***************************************************************************)
LEMMA RunSpectatorStep ==
    ASSUME IInv, NEW n \in 1 .. CatchUp, NEW host \in [1 .. n -> [Remotes -> Inputs]],
           RunSpectator(host)
    PROVE  IInv'
<1>1. n \in Nat \ {0} /\ host \in Seq(PlayerInputs) /\ Len(host) = n
  <2>1. n \in Nat \ {0}
    BY RollbackLoopAssumption
  <2>2. host \in [1 .. n -> PlayerInputs]
    BY DEF PlayerInputs
  <2> QED BY <2>1, <2>2
<1>2. /\ Idle /\ kind = "Spectator" /\ current + n <= MaxFrame
      /\ inputs' = inputs \o host /\ current' = current + n
      /\ requests' = SpectatorRequests(current, n, inputs')
      /\ UNCHANGED <<bevyVars, kind, sessions, peerVars, localLast>>
  BY <1>1 DEF RunSpectator
<1>3. /\ TypeOK /\ current \in 0 .. MaxFrame /\ MaxFrame \in Nat /\ current \in Nat
      /\ inputs \in Seq(PlayerInputs) /\ Len(inputs) = current
      /\ localLast \in -1 .. (MaxFrame + InputDelay)
  BY RollbackLoopAssumption DEF IInv, TypeOK
<1>4. /\ inputs' \in Seq(PlayerInputs) /\ Len(inputs') = current'
      /\ \A i \in 1 .. current : inputs'[i] = inputs[i]
  <2>1. /\ inputs \o host \in Seq(PlayerInputs) /\ Len(inputs \o host) = current + n
        /\ \A i \in 1 .. current + n :
              (inputs \o host)[i] = IF i <= current THEN inputs[i] ELSE host[i - current]
    BY <1>1, <1>3, ConcatProperties
  <2>2. \A i \in 1 .. current : i \in 1 .. current + n /\ i <= current
    BY <1>1, <1>3
  <2> QED BY <1>2, <2>1, <2>2
<1>5. Path(requests', current, current', inputs')
  <2>1. current + n <= Len(inputs')
    BY <1>1, <1>2, <1>3, <1>4
  <2>2. inputs' \in Seq(PlayerInputs) /\ current \in Nat /\ n \in Nat \ {0}
        /\ current + n <= MaxFrame /\ MaxFrame \in Nat
    BY <1>1, <1>2, <1>3, <1>4
  <2>3. Path(SpectatorRequests(current, n, inputs'), current, current + n, inputs')
    BY ONLY <2>1, <2>2, SpectatorPath
  <2> QED BY <1>2, <2>3
<1>6. /\ requests' \in Seq(Requests) /\ current \in 0 .. current
      /\ current' \in current .. MaxFrame /\ localLast' \in -1 .. (MaxFrame + InputDelay)
      /\ kind # "None" /\ kind \notin {"P2P", "SyncTest"}
  BY <1>1, <1>2, <1>3, <1>5 DEF Path
<1> QED BY <1>2, <1>4, <1>5, <1>6, BatchStep

----------------------------------------------------------------------------
(* handle_requests *)

(***************************************************************************)
(* What every request does to the session side of the state.               *)
(***************************************************************************)
LEMMA NextRequestFacts ==
    ASSUME IInv, NEW type, NextRequest(type)
    PROVE  /\ kind # "None" /\ ~ panicked /\ requests # <<>>
           /\ Head(requests).type = type /\ Head(requests) \in Requests
           /\ requests' = Tail(requests) /\ requests' \in Seq(Requests)
           /\ kind' = kind /\ sessions' = sessions /\ current' = current /\ inputs' = inputs
           /\ received' = received /\ gone' = gone /\ localLast' = localLast
           /\ confirmed' \in -1 .. (MaxFrame + InputDelay)
           /\ window' \in Nat
<1>1. /\ requests # <<>> /\ ~ panicked /\ Head(requests).type = type
      /\ requests' = Tail(requests) /\ window' = SessionMaxPrediction
      /\ confirmed' = SessionConfirmedFrame
      /\ kind' = kind /\ sessions' = sessions /\ current' = current /\ inputs' = inputs
      /\ received' = received /\ gone' = gone /\ localLast' = localLast
  BY DEF NextRequest, peerVars
<1>2. kind # "None" /\ TypeOK /\ requests \in Seq(Requests)
  BY <1>1 DEF IInv, TypeOK
<1>3. Head(requests) \in Requests /\ Tail(requests) \in Seq(Requests)
  BY <1>1, <1>2, HeadTailProperties
<1>4. SessionMaxPrediction \in Nat
  BY RollbackLoopAssumption DEF SessionMaxPrediction
<1>5. SessionConfirmedFrame \in -1 .. (MaxFrame + InputDelay)
  BY <1>2, SessionConfirmedFrameType
<1> QED BY <1>1, <1>2, <1>3, <1>4, <1>5

(***************************************************************************)
(* The snapshots have their types.                                         *)
(***************************************************************************)
LEMMA EntryFacts ==
    ASSUME TypeOK, NEW i \in 1 .. Len(store.entries)
    PROVE  /\ store.entries[i] \in [frame : 0 .. MaxFrame, data : Worlds]
           /\ store.entries[i].frame \in 0 .. MaxFrame
           /\ store.entries[i].data \in Worlds
<1>1. store.entries \in Seq([frame : 0 .. MaxFrame, data : Worlds])
  BY DEF TypeOK
<1>2. store.entries[i] \in [frame : 0 .. MaxFrame, data : Worlds]
  BY <1>1, ElementOfSeq
<1> QED BY <1>2

(***************************************************************************)
(* SaveWorld keeps the invariant: the new snapshot is the world, which is  *)
(* on the timeline, and the snapshots it keeps are older.  The first save  *)
(* of a session drops what an earlier session left.                        *)
(***************************************************************************)
LEMMA HandleSaveStep ==
    ASSUME IInv, HandleSave
    PROVE  IInv'
<1>1. /\ NextRequest("Save") /\ store' = SaveChain(store, window', confirmed', frame, world)
      /\ frame' = frame /\ world' = world /\ panicked' = panicked
  BY DEF HandleSave
<1>2. /\ kind # "None" /\ ~ panicked /\ requests # <<>>
      /\ Head(requests).type = "Save" /\ Head(requests) \in Requests
      /\ requests' = Tail(requests) /\ requests' \in Seq(Requests)
      /\ kind' = kind /\ sessions' = sessions /\ current' = current /\ inputs' = inputs
      /\ received' = received /\ gone' = gone /\ localLast' = localLast
      /\ confirmed' \in -1 .. (MaxFrame + InputDelay)
      /\ window' \in Nat
  BY <1>1, NextRequestFacts
<1>3. /\ TypeOK /\ Descending(store.entries) /\ frame <= current /\ RequestsLeadToCurrent
      /\ WorldOnTimeline /\ NoSnapshotAhead /\ SnapshotsOnTimeline
  BY <1>2 DEF IInv
<1>4. ~ LoadPending
  BY <1>2 DEF LoadPending
<1>5. Path(requests, frame, current, inputs)
  BY <1>3, <1>4 DEF RequestsLeadToCurrent
<1>6. Head(requests).frame = frame /\ Path(requests', frame, current, inputs)
  BY <1>2, <1>5, PathTail DEF NextFrame
<1>7. /\ MaxFrame \in Nat /\ MaxFrame < Half /\ InputDelay \in Nat
      /\ frame \in 0 .. MaxFrame /\ world \in Worlds /\ confirmed' \in Int
      /\ store \in Storage(MaxFrame, Worlds)
  BY <1>2, <1>3, RollbackLoopAssumption DEF TypeOK, Storage
<1>8. /\ store' \in Storage(MaxFrame, Worlds)
      /\ Descending(store'.entries)
      /\ \A i \in 1 .. Len(store'.entries) :
            \/ store'.entries[i] = Entry(frame, world)
            \/ /\ store'.entries[i].frame < frame
               /\ \E j \in 1 .. Len(store.entries) : store'.entries[i] = store.entries[j]
  <2> DEFINE w == window'
             k == confirmed'
  <2>1. w \in Nat /\ k \in Int /\ store' = SaveChain(store, w, k, frame, world)
    BY <1>1, <1>2, <1>7
  <2> HIDE DEF w, k
  <2>2. /\ MaxFrame \in Nat /\ MaxFrame < Half /\ store \in Storage(MaxFrame, Worlds)
        /\ Descending(store.entries) /\ frame \in 0 .. MaxFrame /\ world \in Worlds
    BY <1>3, <1>7
  <2> DEFINE t == SaveChain(store, w, k, frame, world)
  <2>3. /\ t \in Storage(MaxFrame, Worlds)
        /\ Descending(t.entries)
        /\ NewOrOlder(t.entries, store.entries, frame, world)
    BY <2>1, <2>2, SaveChainFacts
  <2> HIDE DEF t
  <2>4. store' = t
    BY <2>1 DEF t
  <2> QED BY <2>3, <2>4 DEF NewOrOlder
<1>9. TypeOK'
  BY <1>1, <1>2, <1>3, <1>8 DEF TypeOK, Storage
<1>10. ~ LoadPending' /\ RequestsLeadToCurrent' /\ WorldOnTimeline'
  <2>1. ~ LoadPending'
    BY <1>6, NoLoadOnPath DEF LoadPending
  <2>2. RequestsLeadToCurrent'
    BY <1>1, <1>2, <1>6 DEF RequestsLeadToCurrent
  <2> QED BY <1>1, <1>2, <1>3, <1>4, <2>1, <2>2 DEF WorldOnTimeline
<1>11. NoSnapshotAhead'
  <2> SUFFICES ASSUME NEW i \in 1 .. Len(store'.entries) PROVE store'.entries[i].frame <= frame
    BY <1>1 DEF NoSnapshotAhead
  <2>1. CASE store'.entries[i] = Entry(frame, world)
    BY <1>7, <2>1 DEF Entry
  <2>2. CASE store'.entries[i].frame < frame /\
             \E j \in 1 .. Len(store.entries) : store'.entries[i] = store.entries[j]
    <3>1. store'.entries[i].frame \in 0 .. MaxFrame
      BY <1>3, <2>2, EntryFacts
    <3> QED BY <1>7, <2>2, <3>1
  <2> QED BY <1>8, <2>1, <2>2
<1>12. SnapshotsOnTimeline'
  <2> SUFFICES ASSUME HasSaved', NEW i \in 1 .. Len(store'.entries)
               PROVE  store'.entries[i].data =
                         [origin |-> sessions - 1,
                          inputs |-> SubSeq(inputs, 1, store'.entries[i].frame)]
    BY <1>2 DEF SnapshotsOnTimeline, Positions
  <2>1. CASE store'.entries[i] = Entry(frame, world)
    <3>1. store'.entries[i].frame = frame /\ store'.entries[i].data = world
      BY <2>1 DEF Entry
    <3>2. world.origin = sessions - 1 /\ world.inputs = SubSeq(inputs, 1, frame)
      BY <1>3, <1>4 DEF WorldOnTimeline
    <3>3. world = [origin |-> world.origin, inputs |-> world.inputs]
      BY <1>7 DEF Worlds
    <3> QED BY <3>1, <3>2, <3>3
  <2>2. CASE store'.entries[i].frame < frame /\
             \E j \in 1 .. Len(store.entries) : store'.entries[i] = store.entries[j]
    <3>1. PICK j \in 1 .. Len(store.entries) : store'.entries[i] = store.entries[j]
      BY <2>2
    <3>2. store.entries[j].frame \in 0 .. MaxFrame /\ store.entries[j].frame < frame
      BY <1>3, <2>2, <3>1, EntryFacts
    <3>3. HasSaved
      <4>1. frame # 0
        BY <1>7, <3>2
      <4>2. Head(requests) # SaveGameState(0)
        BY <1>6, <4>1 DEF SaveGameState
      <4> QED BY <1>2, <4>2 DEF HasSaved
    <3>4. Trusted = frame
      BY <1>2 DEF Trusted
    <3>5. store.entries[j].frame <= Trusted
      BY <1>7, <3>2, <3>4
    <3>6. store.entries[j].data =
             [origin |-> sessions - 1, inputs |-> SubSeq(inputs, 1, store.entries[j].frame)]
      BY <1>2, <1>3, <3>3, <3>5 DEF SnapshotsOnTimeline, Positions
    <3> QED BY <3>1, <3>6
  <2> QED BY <1>8, <2>1, <2>2
<1> QED BY <1>1, <1>2, <1>3, <1>8, <1>9, <1>10, <1>11, <1>12 DEF IInv

(***************************************************************************)
(* LoadWorld keeps the invariant: the snapshot it restores is the state of *)
(* its frame on the timeline, and no newer one is left.  A panic ends the  *)
(* run.                                                                    *)
(***************************************************************************)
LEMMA HandleLoadStep ==
    ASSUME IInv, HandleLoad
    PROVE  IInv'
<1> DEFINE l == Head(requests).frame
<1>1. NextRequest("Load") /\ frame' = l
  BY DEF HandleLoad
<1>2. /\ kind # "None" /\ ~ panicked /\ requests # <<>>
      /\ Head(requests).type = "Load" /\ Head(requests) \in Requests
      /\ requests' = Tail(requests) /\ requests' \in Seq(Requests)
      /\ kind' = kind /\ sessions' = sessions /\ current' = current /\ inputs' = inputs
      /\ received' = received /\ gone' = gone /\ localLast' = localLast
      /\ confirmed' \in -1 .. (MaxFrame + InputDelay)
      /\ window' \in Nat
  BY <1>1, NextRequestFacts
<1>3. /\ TypeOK /\ Descending(store.entries) /\ frame <= current /\ RequestsLeadToCurrent
      /\ WorldOnTimeline /\ NoSnapshotAhead /\ SnapshotsOnTimeline
  BY <1>2 DEF IInv
<1>4. l \in 0 .. MaxFrame /\ MaxFrame \in Nat
  BY <1>2, RequestFields, RollbackLoopAssumption
<1>5. ~ Path(requests, frame, current, inputs)
  BY <1>2, NoLoadOnPath
<1>6. HasSaved /\ l \in 0 .. current /\ Path(requests', l, current, inputs)
  BY <1>2, <1>3, <1>5 DEF RequestsLeadToCurrent
<1>7. CASE ~ CanRollback(store, frame')
  <2>1. panicked' = TRUE /\ store' = store /\ world' = world
    BY <1>7 DEF HandleLoad
  <2>2. TypeOK'
    BY <1>1, <1>2, <1>3, <1>4, <2>1 DEF TypeOK
  <2> QED BY <1>2, <1>3, <2>1, <2>2 DEF IInv
<1>8. CASE CanRollback(store, frame')
  <2>1. panicked' = panicked /\ store' = Rollback(store, l) /\ world' = Get(store')
    BY <1>1, <1>8 DEF HandleLoad
  <2>2. store \in Storage(MaxFrame, Worlds) /\ CanRollback(store, l)
    BY <1>1, <1>3, <1>8 DEF TypeOK, Storage
  <2> HIDE DEF l
  <2>3. /\ store' \in Storage(MaxFrame, Worlds)
        /\ Descending(store'.entries)
        /\ Within(store'.entries, store.entries)
        /\ Len(store'.entries) >= 1
        /\ Front(store').frame = l
        /\ \A i \in 1 .. Len(store'.entries) : store'.entries[i].frame <= l
    <3> DEFINE t == Rollback(store, l)
    <3>1. /\ t \in Storage(MaxFrame, Worlds)
          /\ Descending(t.entries)
          /\ Within(t.entries, store.entries)
          /\ Len(t.entries) >= 1
          /\ Front(t).frame = l
          /\ \A i \in 1 .. Len(t.entries) : t.entries[i].frame <= l
      BY <1>3, <1>4, <2>2, RollbackFacts
    <3> HIDE DEF t
    <3>2. store' = t
      BY <2>1 DEF t
    <3> QED BY <3>1, <3>2
  <2>4. ASSUME NEW i \in 1 .. Len(store'.entries)
        PROVE  /\ store'.entries[i].data \in Worlds
               /\ store'.entries[i].data =
                     [origin |-> sessions - 1,
                      inputs |-> SubSeq(inputs, 1, store'.entries[i].frame)]
    <3>1. PICK j \in 1 .. Len(store.entries) : store'.entries[i] = store.entries[j]
      BY <2>3 DEF Within
    <3>2. store.entries[j].frame <= Trusted
      BY <1>2, <2>3, <3>1 DEF Trusted, l
    <3>3. store.entries[j].data =
             [origin |-> sessions - 1, inputs |-> SubSeq(inputs, 1, store.entries[j].frame)]
      BY <1>2, <1>3, <1>6, <3>2 DEF SnapshotsOnTimeline, Positions
    <3>4. store.entries[j].data \in Worlds
      BY <1>3, EntryFacts
    <3> QED BY <3>1, <3>3, <3>4
  <2>5. /\ world' \in Worlds
        /\ world' = [origin |-> sessions - 1, inputs |-> SubSeq(inputs, 1, l)]
    <3>1. 1 \in 1 .. Len(store'.entries)
      <4>1. Len(store'.entries) \in Nat
        BY <2>3, LenProperties DEF Storage
      <4> QED BY <2>3, <4>1
    <3>2. world' = store'.entries[1].data /\ store'.entries[1].frame = l
      BY <2>1, <2>3 DEF Get, Front
    <3> QED BY <2>4, <3>1, <3>2
  <2>6. TypeOK'
    BY <1>1, <1>2, <1>3, <1>4, <2>1, <2>3, <2>5 DEF TypeOK, Storage, l
  <2>7. frame' = l /\ ~ LoadPending'
    BY <1>1, <1>6, NoLoadOnPath DEF LoadPending, l
  <2>8. RequestsLeadToCurrent'
    BY <1>2, <1>6, <2>7 DEF RequestsLeadToCurrent
  <2>9. WorldOnTimeline'
    BY <1>2, <2>5, <2>7 DEF WorldOnTimeline
  <2>10. NoSnapshotAhead'
    BY <2>3, <2>7 DEF NoSnapshotAhead
  <2>11. SnapshotsOnTimeline'
    BY <1>2, <2>4 DEF SnapshotsOnTimeline, Positions
  <2>12. frame' <= current'
    BY <1>2, <1>4, <1>6, <2>7
  <2> QED BY <1>2, <2>1, <2>3, <2>6, <2>8, <2>9, <2>10, <2>11, <2>12 DEF IInv
<1> QED BY <1>7, <1>8

(***************************************************************************)
(* AdvanceWorld keeps the invariant: the world gets the next input of the  *)
(* timeline.                                                               *)
(***************************************************************************)
LEMMA HandleAdvanceStep ==
    ASSUME IInv, HandleAdvance
    PROVE  IInv'
<1> DEFINE input == Head(requests).input
<1>1. /\ NextRequest("Advance") /\ frame' = frame + 1 /\ store' = store /\ panicked' = panicked
      /\ world' = [world EXCEPT !.inputs = Append(world.inputs, input)]
  BY DEF HandleAdvance
<1>2. /\ kind # "None" /\ ~ panicked /\ requests # <<>>
      /\ Head(requests).type = "Advance" /\ Head(requests) \in Requests
      /\ requests' = Tail(requests) /\ requests' \in Seq(Requests)
      /\ kind' = kind /\ sessions' = sessions /\ current' = current /\ inputs' = inputs
      /\ received' = received /\ gone' = gone /\ localLast' = localLast
      /\ confirmed' \in -1 .. (MaxFrame + InputDelay)
      /\ window' \in Nat
  BY <1>1, NextRequestFacts
<1>3. /\ TypeOK /\ Descending(store.entries) /\ frame <= current /\ RequestsLeadToCurrent
      /\ WorldOnTimeline /\ NoSnapshotAhead /\ SnapshotsOnTimeline
  BY <1>2 DEF IInv
<1>4. ~ LoadPending /\ Path(requests, frame, current, inputs)
  BY <1>2, <1>3 DEF LoadPending, RequestsLeadToCurrent
<1>5. /\ frame < Len(inputs) /\ input = inputs[frame + 1]
      /\ Path(requests', frame + 1, current, inputs)
  BY <1>2, <1>4, PathTail DEF NextFrame
<1>6. /\ MaxFrame \in Nat /\ frame \in Nat /\ current \in 0 .. MaxFrame
      /\ inputs \in Seq(PlayerInputs) /\ Len(inputs) = current /\ world \in Worlds
  BY <1>3, RollbackLoopAssumption DEF TypeOK
<1>7. frame + 1 \in 0 .. MaxFrame /\ frame + 1 <= current
  BY <1>5, <1>6
<1>8. /\ world'.origin = sessions - 1
      /\ world'.inputs = SubSeq(inputs, 1, frame + 1)
      /\ world' \in Worlds
  <2>1. world.origin = sessions - 1 /\ world.inputs = SubSeq(inputs, 1, frame)
    BY <1>3, <1>4 DEF WorldOnTimeline
  <2>2. Append(world.inputs, input) = SubSeq(inputs, 1, frame + 1)
    BY <1>5, <1>6, <2>1, NextPrefix
  <2>3. SubSeq(inputs, 1, frame + 1) \in Seq(PlayerInputs)
    <3>1. frame + 1 \in 0 .. Len(inputs) /\ 1 \in 1 .. (Len(inputs) + 1) /\ 1 <= (frame + 1) + 1
      BY <1>6, <1>7
    <3> QED BY <1>6, <3>1, SliceFacts
  <2> HIDE DEF input
  <2>4. world' = [world EXCEPT !.inputs = SubSeq(inputs, 1, frame + 1)]
    BY <1>1, <2>2
  <2> QED BY <1>6, <2>1, <2>3, <2>4 DEF Worlds
<1>9. TypeOK'
  BY <1>1, <1>2, <1>3, <1>7, <1>8 DEF TypeOK
<1>10. ~ LoadPending'
  BY <1>5, NoLoadOnPath DEF LoadPending
<1>11. RequestsLeadToCurrent'
  BY <1>1, <1>2, <1>5 DEF RequestsLeadToCurrent
<1>12. WorldOnTimeline'
  BY <1>1, <1>2, <1>8 DEF WorldOnTimeline
<1>13. HasSaved' => HasSaved
  BY <1>2 DEF HasSaved, SaveGameState
<1>14. NoSnapshotAhead'
  <2> SUFFICES ASSUME HasSaved, NEW i \in 1 .. Len(store.entries)
               PROVE  store.entries[i].frame <= frame + 1
    BY <1>1, <1>13 DEF NoSnapshotAhead
  <2>1. store.entries[i].frame <= frame /\ store.entries[i].frame \in 0 .. MaxFrame
    BY <1>3, EntryFacts DEF NoSnapshotAhead
  <2> QED BY <1>6, <2>1
<1>15. SnapshotsOnTimeline'
  <2> SUFFICES ASSUME HasSaved, NEW i \in 1 .. Len(store.entries)
               PROVE  store.entries[i].data =
                         [origin |-> sessions - 1,
                          inputs |-> SubSeq(inputs, 1, store.entries[i].frame)]
    BY <1>1, <1>2, <1>13 DEF SnapshotsOnTimeline, Positions
  <2>1. store.entries[i].frame <= Trusted
    BY <1>2, <1>3 DEF NoSnapshotAhead, Trusted
  <2> QED BY <1>2, <1>3, <2>1 DEF SnapshotsOnTimeline, Positions
<1> QED BY <1>1, <1>2, <1>3, <1>7, <1>9, <1>11, <1>12, <1>14, <1>15 DEF IInv

----------------------------------------------------------------------------
(* The user, the network and the step without a session *)

(***************************************************************************)
(* A new session starts a timeline of its own, before its first save.      *)
(***************************************************************************)
LEMMA InsertSessionStep ==
    ASSUME IInv, NEW k \in Kinds, InsertSession(k)
    PROVE  IInv'
<1>1. /\ Idle /\ frame = 0 /\ sessions < MaxSessions
      /\ kind' = k /\ sessions' = sessions + 1 /\ current' = 0 /\ inputs' = <<>>
      /\ received' = [p \in Remotes |-> <<>>] /\ gone' = {} /\ localLast' = -1
      /\ world' = Origin(sessions)
      /\ frame' = frame /\ confirmed' = confirmed /\ window' = window /\ store' = store
      /\ panicked' = panicked /\ requests' = requests
  BY DEF InsertSession, NullFrame
<1>2. TypeOK /\ Descending(store.entries) /\ requests = <<>> /\ ~ panicked
  BY <1>1 DEF IInv, Idle
<1>3. TypeOK'
  <2>1. sessions \in 0 .. MaxSessions /\ MaxSessions \in Nat /\ MaxFrame \in Nat /\ InputDelay \in Nat
    BY <1>2, RollbackLoopAssumption DEF TypeOK
  <2>2. world' \in Worlds /\ sessions' \in 0 .. MaxSessions
    BY <1>1, <2>1 DEF Origin, Worlds
  <2>3. received' \in [Remotes -> Seq(Inputs)] /\ gone' \in SUBSET Remotes
    BY <1>1
  <2>4. inputs' \in Seq(PlayerInputs) /\ Len(inputs') = current' /\ current' \in 0 .. MaxFrame
    BY <1>1, <2>1
  <2>5. localLast' \in -1 .. (MaxFrame + InputDelay) /\ kind' \in Kinds \union {"None"}
    BY <1>1, <2>1
  <2> QED BY <1>1, <1>2, <2>2, <2>3, <2>4, <2>5 DEF TypeOK
<1>4. ~ HasSaved' /\ ~ LoadPending' /\ frame' <= current'
  BY <1>1, <1>2 DEF HasSaved, LoadPending
<1>5. RequestsLeadToCurrent'
  <2>1. Path(<<>>, 0, 0, <<>>)
    BY NoRequests
  <2> QED BY <1>1, <1>2, <2>1 DEF RequestsLeadToCurrent
<1>6. WorldOnTimeline'
  <2>1. sessions \in Int /\ sessions + 1 - 1 = sessions
    BY <1>2, RollbackLoopAssumption DEF TypeOK
  <2>2. SubSeq(<<>>, 1, 0) = <<>>
    BY SubSeqEmpty
  <2> QED BY <1>1, <2>1, <2>2 DEF WorldOnTimeline, Origin
<1>7. NoSnapshotAhead' /\ SnapshotsOnTimeline'
  BY <1>4 DEF NoSnapshotAhead, SnapshotsOnTimeline
<1> QED BY <1>1, <1>2, <1>3, <1>4, <1>5, <1>6, <1>7 DEF IInv

(***************************************************************************)
(* The steps that touch neither the world, the snapshots nor the requests. *)
(***************************************************************************)
LEMMA PeerStep ==
    ASSUME IInv, UNCHANGED <<bevyVars, requests, kind, sessions, current, inputs, localLast>>,
           received' \in [Remotes -> Seq(Inputs)], gone' \in SUBSET Remotes
    PROVE  IInv'
<1>1. /\ frame' = frame /\ confirmed' = confirmed /\ window' = window /\ store' = store
      /\ world' = world /\ panicked' = panicked /\ requests' = requests
      /\ kind' = kind /\ sessions' = sessions /\ current' = current /\ inputs' = inputs
      /\ localLast' = localLast
  BY DEF bevyVars
<1>2. TypeOK'
  BY <1>1 DEF IInv, TypeOK
<1>3. /\ LoadPending' = LoadPending /\ HasSaved' = HasSaved /\ Trusted' = Trusted
  BY <1>1 DEF LoadPending, HasSaved, Trusted
<1>4. /\ RequestsLeadToCurrent' = RequestsLeadToCurrent
      /\ WorldOnTimeline' = WorldOnTimeline
      /\ NoSnapshotAhead' = NoSnapshotAhead
      /\ SnapshotsOnTimeline' = SnapshotsOnTimeline
  BY <1>1, <1>3 DEF RequestsLeadToCurrent, WorldOnTimeline, NoSnapshotAhead, SnapshotsOnTimeline
<1> QED BY <1>1, <1>2, <1>4 DEF IInv

(***************************************************************************)
(* An input that arrives changes nothing until the next step.              *)
(***************************************************************************)
LEMMA ReceiveInputStep ==
    ASSUME IInv, NEW p \in Remotes, NEW input \in Inputs, ReceiveInput(p, input)
    PROVE  IInv'
<1>1. /\ received' = [received EXCEPT ![p] = Append(received[p], input)]
      /\ UNCHANGED <<bevyVars, requests, kind, sessions, current, inputs, gone, localLast>>
  BY DEF ReceiveInput
<1>2. received \in [Remotes -> Seq(Inputs)] /\ gone \in SUBSET Remotes
  BY DEF IInv, TypeOK
<1>3. Append(received[p], input) \in Seq(Inputs)
  BY <1>2, AppendProperties
<1>4. received' \in [Remotes -> Seq(Inputs)] /\ gone' \in SUBSET Remotes
  BY <1>1, <1>2, <1>3
<1> QED BY <1>1, <1>4, PeerStep

(***************************************************************************)
(* Nor does a player who leaves.                                           *)
(***************************************************************************)
LEMMA DisconnectPlayerStep ==
    ASSUME IInv, NEW p \in Remotes, DisconnectPlayer(p)
    PROVE  IInv'
<1>1. /\ gone' = gone \union {p}
      /\ UNCHANGED <<bevyVars, requests, kind, sessions, current, inputs, received, localLast>>
  BY DEF DisconnectPlayer
<1>2. received' \in [Remotes -> Seq(Inputs)] /\ gone' \in SUBSET Remotes
  BY <1>1 DEF IInv, TypeOK
<1> QED BY <1>1, <1>2, PeerStep

(***************************************************************************)
(* The user takes the session away.                                        *)
(***************************************************************************)
LEMMA RemoveSessionStep ==
    ASSUME IInv, RemoveSession
    PROVE  IInv'
<1>1. /\ requests = <<>> /\ kind' = "None"
      /\ frame' = frame /\ confirmed' = confirmed /\ window' = window /\ store' = store
      /\ world' = world /\ panicked' = panicked /\ requests' = requests
      /\ sessions' = sessions /\ current' = current /\ inputs' = inputs
      /\ received' = received /\ gone' = gone /\ localLast' = localLast
  BY DEF RemoveSession, Idle, bevyVars, peerVars
<1>2. TypeOK'
  BY <1>1 DEF IInv, TypeOK
<1> QED BY <1>1, <1>2 DEF IInv

(***************************************************************************)
(* The step without a session.                                             *)
(***************************************************************************)
LEMMA RunWithoutSessionStep ==
    ASSUME IInv, RunWithoutSession
    PROVE  IInv'
<1>1. /\ requests = <<>> /\ kind = "None"
      /\ frame' = 0 /\ confirmed' = -1 /\ window' = 8 /\ store' = store
      /\ world' = world /\ panicked' = panicked /\ requests' = requests
      /\ kind' = kind /\ sessions' = sessions /\ current' = current /\ inputs' = inputs
      /\ received' = received /\ gone' = gone /\ localLast' = localLast
  BY DEF RunWithoutSession, Idle, peerVars
<1>2. TypeOK'
  <2>1. frame' \in 0 .. MaxFrame /\ confirmed' \in -1 .. (MaxFrame + InputDelay) /\ window' \in Nat
    BY <1>1, RollbackLoopAssumption
  <2> QED BY <1>1, <2>1 DEF IInv, TypeOK
<1> QED BY <1>1, <1>2 DEF IInv

----------------------------------------------------------------------------
(***************************************************************************)
(* Every step of the specification preserves the invariant.                *)
(***************************************************************************)
LEMMA NextIInv == IInv /\ [Next]_vars => IInv'
<1> SUFFICES ASSUME IInv, [Next]_vars PROVE IInv'
  OBVIOUS
<1>1. CASE \E k \in Kinds : InsertSession(k)
  BY <1>1, InsertSessionStep
<1>2. CASE RemoveSession
  BY <1>2, RemoveSessionStep
<1>3. CASE \E p \in Remotes, input \in Inputs : ReceiveInput(p, input)
  BY <1>3, ReceiveInputStep
<1>4. CASE \E p \in Remotes : DisconnectPlayer(p)
  BY <1>4, DisconnectPlayerStep
<1>5. CASE RunP2P
  BY <1>5, RunP2PStep
<1>6. CASE \E input \in [Remotes -> Inputs] : RunSyncTest(input)
  BY <1>6, RunSyncTestStep
<1>7. CASE \E n \in 1 .. CatchUp : \E host \in [1 .. n -> [Remotes -> Inputs]] : RunSpectator(host)
  BY <1>7, RunSpectatorStep
<1>8. CASE RunWithoutSession
  BY <1>8, RunWithoutSessionStep
<1>9. CASE HandleSave
  BY <1>9, HandleSaveStep
<1>10. CASE HandleLoad
  BY <1>10, HandleLoadStep
<1>11. CASE HandleAdvance
  BY <1>11, HandleAdvanceStep
<1>12. CASE UNCHANGED vars
  <2>1. /\ UNCHANGED <<bevyVars, requests, kind, sessions, current, inputs, localLast>>
        /\ received' = received /\ gone' = gone
    BY <1>12 DEF vars, bevyVars
  <2>2. received' \in [Remotes -> Seq(Inputs)] /\ gone' \in SUBSET Remotes
    BY <2>1 DEF IInv, TypeOK
  <2> QED BY <2>1, <2>2, PeerStep
<1> QED BY <1>1, <1>2, <1>3, <1>4, <1>5, <1>6, <1>7, <1>8, <1>9, <1>10, <1>11, <1>12
        DEF Next, RunSession, HandleRequest

(***************************************************************************)
(* So the invariant holds in every reachable state.                        *)
(***************************************************************************)
LEMMA AlwaysIInv == Spec => []IInv
BY InitIInv, NextIInv, PTL DEF Spec

(***************************************************************************)
(* The resources bevy_ggrs keeps and the session behind it have their      *)
(* types in every reachable state.                                         *)
(***************************************************************************)
THEOREM TypeCorrect == Spec => []TypeOK
<1>1. IInv => TypeOK
  BY DEF IInv
<1> QED BY <1>1, AlwaysIInv, PTL

(***************************************************************************)
(* After each step of the schedule the world is the simulation of exactly  *)
(* the inputs the session has settled on: however many players there are,  *)
(* in whatever order inputs arrive, players disconnect and sessions of any *)
(* kind follow one another.                                                *)
(***************************************************************************)
THEOREM WorldFollowsSessionAlways == Spec => []WorldFollowsSession
<1>1. IInv => WorldFollowsSession
  <2> SUFFICES ASSUME IInv, Idle, kind # "None"
               PROVE  frame = current /\ world.inputs = inputs /\ world.origin = sessions - 1
    BY DEF WorldFollowsSession
  <2>1. requests = <<>> /\ RequestsLeadToCurrent /\ WorldOnTimeline
    BY DEF IInv, Idle
  <2>2. frame = current
    BY <2>1 DEF RequestsLeadToCurrent, LoadPending, Path
  <2>3. inputs \in Seq(PlayerInputs) /\ Len(inputs) = current
    BY DEF IInv, TypeOK
  <2>4. SubSeq(inputs, 1, current) = inputs
    BY <2>3, SubSeqFull
  <2> QED BY <2>1, <2>2, <2>4 DEF WorldOnTimeline, LoadPending
<1> QED BY <1>1, AlwaysIInv, PTL

(***************************************************************************)
(* Every snapshot a rollback could restore is a state of the timeline the  *)
(* session is on, and none is left of an older session.                    *)
(***************************************************************************)
THEOREM SnapshotsOnTimelineAlways == Spec => []SnapshotsOnTimeline
<1>1. IInv => SnapshotsOnTimeline
  BY DEF IInv, SnapshotsOnTimeline, HasSaved
<1> QED BY <1>1, AlwaysIInv, PTL

(***************************************************************************)
(* GGRS and bevy_ggrs mean the same frame by every request to save or to   *)
(* advance, although bevy_ggrs never looks at the frame of the request.    *)
(***************************************************************************)
THEOREM FramesAgreeAlways == Spec => []FramesAgree
<1>1. IInv => FramesAgree
  <2> SUFFICES ASSUME IInv, requests # <<>>, ~ panicked, Head(requests).type # "Load"
               PROVE  Head(requests).frame = frame
    BY DEF FramesAgree
  <2>1. RequestsLeadToCurrent
    BY DEF IInv
  <2>2. Path(requests, frame, current, inputs)
    BY <2>1 DEF RequestsLeadToCurrent, LoadPending
  <2> QED BY <2>2, PathTail
<1> QED BY <1>1, AlwaysIInv, PTL
=============================================================================
