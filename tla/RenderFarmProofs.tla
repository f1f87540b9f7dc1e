-------------------------- MODULE RenderFarmProofs --------------------------
(***************************************************************************)
(* Proofs about RenderFarm: its type invariant, the inductive invariant    *)
(* ServesFrontJob with what follows from it for every access of the server *)
(* to a film, the order of the windows in crop_windows_, and what the      *)
(* images show: a client renders the frame that the server thinks it       *)
(* renders, no image is blank, no frame of a scene that ended is missing,  *)
(* the image of a frame that ended is final, and while no client is lost   *)
(* the first image is complete, and all are with one renderer.             *)
(***************************************************************************)
EXTENDS RenderFarm, InductionLemmas

-----------------------------------------------------------------------------
(***************************************************************************)
(* Lemmas about the operators of RenderFarm, and the step of its type      *)
(* invariant.                                                              *)
(***************************************************************************)

(***************************************************************************)
(* The list of windows that remains when a frame ends.                     *)
(***************************************************************************)
Kept(k, n, s, f) ==
  k = [i \in 0 .. n |->
         IF i = 0 THEN <<>>
         ELSE IF s[i].frame = f THEN k[i - 1] ELSE Append(k[i - 1], s[i])]

\* The recursion in WithoutFrame defines a function.
LEMMA KeptExists ==
  ASSUME NEW S, NEW s \in Seq(S), NEW f
  PROVE  \A n \in 0 .. Len(s) : \E k \in [0 .. n -> Seq(S)] : Kept(k, n, s, f)
<1> DEFINE Good == {n \in Nat : n <= Len(s) => \E k \in [0 .. n -> Seq(S)] : Kept(k, n, s, f)}
<1>1. 0 \in Good
  <2>1. [i \in 0 .. 0 |-> <<>>] \in [0 .. 0 -> Seq(S)]
    OBVIOUS
  <2>2. Kept([i \in 0 .. 0 |-> <<>>], 0, s, f)
    BY DEF Kept
  <2> QED
    BY <2>1, <2>2
<1>2. ASSUME NEW n \in Good PROVE n + 1 \in Good
  <2> SUFFICES ASSUME n + 1 <= Len(s)
               PROVE  \E k \in [0 .. (n + 1) -> Seq(S)] : Kept(k, n + 1, s, f)
    OBVIOUS
  <2>1. PICK k \in [0 .. n -> Seq(S)] : Kept(k, n, s, f)
    OBVIOUS
  <2> DEFINE last == IF s[n + 1].frame = f THEN k[n] ELSE Append(k[n], s[n + 1])
             kk == [i \in 0 .. (n + 1) |-> IF i <= n THEN k[i] ELSE last]
  <2>2. last \in Seq(S)
    <3>1. k[n] \in Seq(S) /\ s[n + 1] \in S
      BY <2>1
    <3> QED
      BY <3>1
  <2>3. kk \in [0 .. (n + 1) -> Seq(S)]
    BY <2>1, <2>2
  <2>4. ASSUME NEW i \in 0 .. (n + 1)
        PROVE  kk[i] = IF i = 0 THEN <<>>
                       ELSE IF s[i].frame = f THEN kk[i - 1] ELSE Append(kk[i - 1], s[i])
    <3>1. CASE i = n + 1
      BY <3>1
    <3>2. CASE i \in 0 .. n
      <4>1. k[i] = IF i = 0 THEN <<>>
                   ELSE IF s[i].frame = f THEN k[i - 1] ELSE Append(k[i - 1], s[i])
        BY <2>1, <3>2 DEF Kept
      <4>2. i # 0 => i - 1 \in 0 .. n /\ i - 1 \in 0 .. (n + 1)
        BY <3>2
      <4> QED
        BY <4>1, <4>2, <3>2
    <3> QED
      BY <3>1, <3>2
  <2>5. Kept(kk, n + 1, s, f)
    BY <2>4 DEF Kept
  <2> HIDE DEF kk
  <2> QED
    BY <2>3, <2>5
<1>3. Good = Nat
  <2> HIDE DEF Good
  <2>1. Good \in SUBSET Nat
    BY DEF Good
  <2> QED
    BY <1>1, <1>2, <2>1, SetInduction
<1> QED
  BY <1>3

\* Dropping the windows of a frame leaves a list of windows.
LEMMA WithoutFrameType ==
  ASSUME NEW S, NEW s \in Seq(S), NEW f
  PROVE  WithoutFrame(s, f) \in Seq(S)
<1> DEFINE kept == CHOOSE k : Kept(k, Len(s), s, f)
<1>0. Len(s) \in 0 .. Len(s)
  OBVIOUS
<1>1. \E k \in [0 .. Len(s) -> Seq(S)] : Kept(k, Len(s), s, f)
  BY KeptExists, <1>0
<1>2. Kept(kept, Len(s), s, f)
  BY <1>1
<1>3. WithoutFrame(s, f) = kept[Len(s)]
  BY Zenon DEF WithoutFrame, Kept
<1> HIDE DEF kept
<1>4. \A i \in 0 .. Len(s) :
        kept[i] = IF i = 0 THEN <<>>
                  ELSE IF s[i].frame = f THEN kept[i - 1] ELSE Append(kept[i - 1], s[i])
  BY <1>2 DEF Kept
<1> DEFINE Good == {n \in Nat : n <= Len(s) => kept[n] \in Seq(S)}
<1>5. 0 \in Good
  <2>1. 0 \in 0 .. Len(s)
    OBVIOUS
  <2>2. kept[0] = <<>>
    BY <1>4, <2>1
  <2>3. <<>> \in Seq(S)
    OBVIOUS
  <2>4. kept[0] \in Seq(S)
    BY <2>2, <2>3
  <2> QED
    BY <2>4
<1>6. ASSUME NEW n \in Good PROVE n + 1 \in Good
  <2> SUFFICES ASSUME n + 1 <= Len(s) PROVE kept[n + 1] \in Seq(S)
    OBVIOUS
  <2>1. n + 1 \in 0 .. Len(s) /\ n + 1 # 0 /\ (n + 1) - 1 = n
    OBVIOUS
  <2>2. kept[n + 1] = IF s[n + 1].frame = f THEN kept[n] ELSE Append(kept[n], s[n + 1])
    BY <1>4, <2>1
  <2>3. kept[n] \in Seq(S) /\ s[n + 1] \in S
    OBVIOUS
  <2> QED
    BY <2>2, <2>3
<1>7. Good = Nat
  <2> HIDE DEF Good
  <2>1. Good \in SUBSET Nat
    BY DEF Good
  <2> QED
    BY <1>5, <1>6, <2>1, SetInduction
<1> QED
  BY <1>3, <1>7

-----------------------------------------------------------------------------
(***************************************************************************)
(* Facts about sequences that the message channels are built with.         *)
(***************************************************************************)

\* What is left of a channel after its first message.
LEMMA TailOfSeq ==
  ASSUME NEW S, NEW s \in Seq(S), s # <<>>
  PROVE  /\ Tail(s) \in Seq(S) /\ Head(s) \in S /\ Head(s) = s[1] /\ 1 \in DOMAIN s
         /\ Len(Tail(s)) = Len(s) - 1
         /\ \A i \in DOMAIN Tail(s) : Tail(s)[i] = s[i + 1] /\ i + 1 \in DOMAIN s
OBVIOUS

\* A channel after one more message.
LEMMA AppendToSeq ==
  ASSUME NEW S, NEW s \in Seq(S), NEW e \in S
  PROVE  /\ Append(s, e) \in Seq(S) /\ Len(Append(s, e)) = Len(s) + 1
         /\ \A i \in DOMAIN Append(s, e) :
              \/ i \in DOMAIN s /\ Append(s, e)[i] = s[i]
              \/ i = Len(s) + 1 /\ Append(s, e)[i] = e
OBVIOUS

\* The messages have their types.
LEMMA MessageTypes ==
  /\ RequestTask \in ToServer /\ WriteImage \in ToServer
  /\ \A s \in Scene, p \in Windows \cup {NoArea} : AddSample(s, p) \in ToServer
  /\ \A j \in Job : SubmitJob(j) \in ToServer
  /\ \A w \in CropWindow : RenderCrop(w) \in ToClient
  /\ \A f \in Int : StartFrame(f) \in ToClient /\ EndFrame(f) \in ToClient
  /\ \A f \in Files : StartRenderScene(f) \in ToClient
  /\ EndRenderScene \in ToClient
BY DEF RequestTask, WriteImage, AddSample, SubmitJob, RenderCrop, StartFrame, EndFrame,
       StartRenderScene, EndRenderScene, ToServer, ToClient

\* What a received message of each kind carries.
LEMMA MessageFields ==
  /\ \A m \in ToServer : m.kind = "render_scene" => m.job \in Job
  /\ \A m \in ToServer : m.kind = "add_sample" => m.place \in Windows \cup {NoArea}
  /\ \A m \in ToClient : m.kind = "render_crop" => m.win \in CropWindow
  /\ \A m \in ToClient : m.kind = "start_frame" => m.frame \in Int
  /\ \A m \in ToClient : m.kind = "start_render_scene" => m.file \in Files
BY DEF ToServer, ToClient

\* The window granted next is a crop window.
LEMMA NextPlaceType ==
  ASSUME TypeOK, NEW c \in Clients
  PROVE  NextPlace(c) \in Windows \cup {NoArea}
<1>1. 0 \in Windows
  BY WindowsAssumption DEF Windows
<1>2. ASSUME cropWindows # <<>>, ~ScanOver PROVE Back.place + 1 \in Windows
  <2>1. Back \in CropWindow
    BY <1>2 DEF TypeOK, Back
  <2>2. Back.place \in Windows \cup {NoArea}
    BY <2>1 DEF CropWindow
  <2> QED
    BY <2>2, <1>2, WindowsAssumption DEF ScanOver, Windows, NoArea
<1> QED
  BY <1>1, <1>2 DEF NextPlace

\* A write keeps the files on disk well formed.
LEMMA WrittenType ==
  ASSUME TypeOK, FilmsOfFrontJob, NEW f \in Int, NEW shown \in [DOMAIN films -> SUBSET Windows]
  PROVE  /\ Written(shown, f) \in [DOMAIN Written(shown, f) -> SUBSET Windows]
         /\ DOMAIN Written(shown, f) \subseteq Files \X Int
<1>1. CASE f \notin DOMAIN films
  BY <1>1 DEF Written, TypeOK
<1>2. CASE f \in DOMAIN films
  <2>1. Head(jobFiles).file \in Files /\ shown[f] \in SUBSET Windows
    <3>1. Head(jobFiles) \in Job
      BY <1>2 DEF TypeOK, FilmsOfFrontJob
    <3> QED
      BY <1>2, <3>1 DEF TypeOK, Job
  <2> DEFINE name == <<Head(jobFiles).file, f>>
  <2>2. Written(shown, f) =
          [n \in DOMAIN disk \cup {name} |-> IF n = name THEN shown[f] ELSE disk[n]]
    BY <1>2 DEF Written
  <2> QED
    BY <2>1, <2>2 DEF TypeOK
<1> QED
  BY <1>1, <1>2

\* do_render_scene keeps the types of what it changes.
LEMMA DoRenderSceneType ==
  ASSUME TypeOK, NEW q \in Seq(Job), NEW cur \in Int, NEW nxt \in Int, NEW tp,
         NEW fr \in [Clients -> Int], NEW st \in [Clients -> RenderNodeStatus],
         NEW out \in [Clients -> Seq(ToClient)],
         DoRenderScene(q, cur, nxt, tp, fr, st, out)
  PROVE  /\ jobFiles' \in Seq(Job) /\ curFrame' \in Int /\ nextFrame' \in Int
         /\ films' \in [DOMAIN films' -> SUBSET Windows] /\ DOMAIN films' \subseteq Int
         /\ frame' \in [Clients -> Int] /\ status' \in [Clients -> RenderNodeStatus]
         /\ toClient' \in [Clients -> Seq(ToClient)]
<1> DEFINE job == Head(q)
           started == q # <<>> /\ job.file \notin BrokenStartup
           woken == {r \in connections : started /\ tp[r] # "CONTROLLER" /\ st[r] = "IDLE"}
           sent == <<StartRenderScene(job.file), StartFrame(job.begin)>>
<1>1. q # <<>> => job.begin \in Int /\ job.end \in Int /\ job.file \in Files
  <2>1. q # <<>> => job \in Job
    OBVIOUS
  <2> QED
    BY <2>1 DEF Job
<1>2. /\ jobFiles' = q
      /\ curFrame' = IF q = <<>> THEN cur ELSE job.begin
      /\ nextFrame' = IF q = <<>> THEN nxt ELSE job.begin
      /\ films' = IF started THEN [f \in FramesOf(job) |-> {}] ELSE NoFilms
      /\ frame' = [r \in Clients |-> IF r \in woken THEN job.begin ELSE fr[r]]
      /\ status' = [r \in Clients |-> IF r \in woken THEN "START_FRAME" ELSE st[r]]
      /\ toClient' = [r \in Clients |-> IF r \in woken THEN out[r] \o sent ELSE out[r]]
  BY DEF DoRenderScene
<1>3. films' \in [DOMAIN films' -> SUBSET Windows] /\ DOMAIN films' \subseteq Int
  BY <1>1, <1>2 DEF NoFilms, FramesOf
<1>4. frame' \in [Clients -> Int]
  BY <1>1, <1>2
<1>5. status' \in [Clients -> RenderNodeStatus]
  BY <1>2 DEF RenderNodeStatus
<1>6. toClient' \in [Clients -> Seq(ToClient)]
  <2>1. q # <<>> => sent \in Seq(ToClient)
    BY <1>1, MessageTypes
  <2> QED
    BY <1>2, <2>1
<1> QED
  BY <1>1, <1>2, <1>3, <1>4, <1>5, <1>6

\* Taking a message from a channel, and sending and answering, keep the types.
LEMMA ReceiveType ==
  ASSUME TypeOK, NEW c \in Clients, NEW k, Received(c, k)
  PROVE  /\ Head(toServer[c]) \in ToServer /\ Head(toServer[c]).kind = k
         /\ AfterReceive(c) \in [Clients -> Seq(ToServer)]
BY DEF Received, AfterReceive, TypeOK

\* Sending a message keeps the type of the channels.
LEMMA SendType ==
  ASSUME TypeOK, NEW c \in Clients, NEW m \in ToClient
  PROVE  Send(c, m) \in [Clients -> Seq(ToClient)]
BY DEF Send, TypeOK

\* So does the delivery of one,
LEMMA DeliverType ==
  ASSUME TypeOK, NEW c \in Clients, c \in alive, toClient[c] # <<>>
  PROVE  /\ Head(toClient[c]) \in ToClient
         /\ AfterDelivery(c) \in [Clients -> Seq(ToClient)]
BY DEF AfterDelivery, TypeOK

\* and an answer.
LEMMA ReplyType ==
  ASSUME TypeOK, NEW c \in Clients, NEW msgs \in Seq(ToServer)
  PROVE  Reply(c, msgs) \in [Clients -> Seq(ToServer)]
BY DEF Reply, TypeOK

\* The answer of a client to a window.
Answer(c) == <<AddSample(scene[c], Head(toClient[c]).win.place), WriteImage, RequestTask>>
LEMMA AnswerType ==
  ASSUME TypeOK, NEW c \in Clients, DoRenderCrop(c)
  PROVE  /\ Answer(c) \in Seq(ToServer) /\ toServer' = Reply(c, Answer(c))
         /\ Head(toClient[c]).win.place \in Windows \cup {NoArea}
<1>1. Head(toClient[c]) \in ToClient /\ Head(toClient[c]).kind = "render_crop"
  BY DeliverType DEF DoRenderCrop, Delivered
<1>2. Head(toClient[c]).win.place \in Windows \cup {NoArea}
  BY <1>1, MessageFields DEF CropWindow
<1>3. Answer(c) \in Seq(ToServer)
  BY <1>2, MessageTypes DEF Answer, TypeOK
<1> QED
  BY <1>2, <1>3 DEF DoRenderCrop, Answer

\* A script that fails takes one message off the channel and answers nothing.
LEMMA ScriptFailsFacts ==
  ASSUME NEW c, ScriptFails(c)
  PROVE  /\ c \in alive /\ toClient[c] # <<>> /\ toClient' = AfterDelivery(c)
         /\ UNCHANGED <<connections, cropWindows, curFrame, nextFrame, jobFiles, films, disk, listening>>
         /\ UNCHANGED <<type, status, frame, alive, finished, toServer>>
BY DEF ScriptFails, TaskFails, StartSceneFails, EndSceneFails, Delivered,
       clientUnchanged, svrVars, filmVars, nodeVars

\* The frame a node moves to, and what end_frame makes of the server's frames.
LEMMA EndFrameType ==
  ASSUME TypeOK, FilmsOfFrontJob, NEW c \in Clients, EndFrameStep(c)
  PROVE  /\ NextAfter(c) \in Int /\ EndedCur(c) \in Int /\ EndedNext(c) \in Int
         /\ FramesAfter(c) \in [Clients -> Int]
         /\ cropWindows' \in Seq(CropWindow)
         /\ disk' \in [DOMAIN disk' -> SUBSET Windows] /\ DOMAIN disk' \subseteq Files \X Int
<1>1. NextAfter(c) \in Int
  BY DEF NextAfter, TypeOK
<1>2. EndedCur(c) \in Int /\ EndedNext(c) \in Int /\ FramesAfter(c) \in [Clients -> Int]
  BY <1>1 DEF EndedCur, EndedNext, FramesAfter, TypeOK
<1>3. CASE FrameAllDone(c)
  <2>1. cropWindows' = WithoutFrame(cropWindows, curFrame) /\ disk' = Written(films, curFrame)
    BY <1>3 DEF EndFrameStep
  <2> QED
    BY <1>1, <1>2, <2>1, WithoutFrameType, WrittenType DEF TypeOK
<1>4. CASE ~FrameAllDone(c)
  BY <1>1, <1>2, <1>4 DEF EndFrameStep, TypeOK
<1> QED
  BY <1>3, <1>4

\* Every step of the system keeps the types.
LEMMA TypeStep ==
  ASSUME ServesFrontJob, [Next]_vars
  PROVE  TypeOK'
<1> USE DEF ServesFrontJob
<1>1. ASSUME NEW c \in Clients, Accept(c) PROVE TypeOK'
  <2>1. c \in Controllers =>
          [i \in 1 .. Len(Script[c]) |-> SubmitJob(Script[c][i])] \in Seq(ToServer)
    BY ScriptAssumption, MessageTypes
  <2>2. toServer' \in [Clients -> Seq(ToServer)]
    BY <1>1, <2>1 DEF Accept, TypeOK
  <2> QED
    BY <1>1, <2>2 DEF Accept, TypeOK, filmVars, history, ClientType, RenderNodeStatus,
                    Scene, NoScene, SceneOf
<1>2. ASSUME AcceptFails PROVE TypeOK'
  <2>1. faults' \in 0 .. MaxFaults
    BY <1>2, FaultsAssumption DEF AcceptFails, TypeOK
  <2>2. listening' \in BOOLEAN
    BY <1>2 DEF AcceptFails
  <2> QED
    BY <1>2, <2>1, <2>2 DEF AcceptFails, TypeOK, filmVars, nodeVars
<1>3. ASSUME NEW c \in Clients, LoseClient(c) PROVE TypeOK'
  <2>1. faults' \in 0 .. MaxFaults
    BY <1>3, FaultsAssumption DEF LoseClient, TypeOK
  <2>2. toClient' \in [Clients -> Seq(ToClient)]
    BY <1>3 DEF LoseClient, TypeOK
  <2> QED
    BY <1>3, <2>1, <2>2 DEF LoseClient, TypeOK, svrVars, filmVars, nodeVars
<1>4. ASSUME NEW c \in Clients, DisconnectRenderNode(c) PROVE TypeOK'
  BY <1>4 DEF DisconnectRenderNode, TypeOK, filmVars, nodeVars, history
<1>5. ASSUME NEW c \in Clients, Received(c, "render_scene"), RenderScene(c) PROVE TypeOK'
  <2> DEFINE job == Head(toServer[c]).job
             tp == [type EXCEPT ![c] = "CONTROLLER"]
  <2>1. /\ toServer[c] # <<>> /\ Head(toServer[c]) \in ToServer /\ Tail(toServer[c]) \in Seq(ToServer)
        /\ Head(toServer[c]).kind = "render_scene"
    BY <1>5 DEF Received, TypeOK
  <2>2. job \in Job
    BY <2>1, MessageFields
  <2>3. toServer' \in [Clients -> Seq(ToServer)]
    BY <1>5, <2>1 DEF RenderScene, AfterReceive, TypeOK
  <2>4. type' \in [Clients -> ClientType]
    BY <1>5 DEF RenderScene, TypeOK, ClientType
  <2>5. /\ jobFiles' \in Seq(Job) /\ curFrame' \in Int /\ nextFrame' \in Int
        /\ films' \in [DOMAIN films' -> SUBSET Windows] /\ DOMAIN films' \subseteq Int
        /\ frame' \in [Clients -> Int] /\ status' \in [Clients -> RenderNodeStatus]
        /\ toClient' \in [Clients -> Seq(ToClient)]
    <3>1. CASE DoRenderScene(<<job>>, curFrame, nextFrame, tp, frame, status, toClient)
      <4>1. <<job>> \in Seq(Job)
        BY <2>2
      <4> QED
        BY <3>1, <4>1, DoRenderSceneType DEF TypeOK
    <3>2. CASE jobFiles' = Append(jobFiles, job)
               /\ UNCHANGED <<curFrame, nextFrame, films, frame, status, toClient>>
      BY <2>2, <3>2 DEF TypeOK
    <3>3. CASE UNCHANGED <<jobFiles, curFrame, nextFrame, films, frame, status, toClient>>
      BY <3>3 DEF TypeOK
    <3> QED
      BY <1>5, <3>1, <3>2, <3>3 DEF RenderScene
  <2> QED
    BY <1>5, <2>3, <2>4, <2>5 DEF RenderScene, TypeOK, history
<1>6. ASSUME NEW c \in Clients, TakeSample(c) PROVE TypeOK'
  <2>1. Received(c, "add_sample")
    BY <1>6 DEF TakeSample
  <2>2. AfterReceive(c) \in [Clients -> Seq(ToServer)]
    BY <2>1, ReceiveType
  <2>3. Sampled(c) \in [DOMAIN films -> SUBSET Windows] /\ frame[c] \in Int
    BY DEF Sampled, TypeOK
  <2>4. films' \in [DOMAIN films' -> SUBSET Windows] /\ DOMAIN films' \subseteq Int
    BY <1>6, <2>3 DEF TakeSample, TypeOK
  <2>5. disk' \in [DOMAIN disk' -> SUBSET Windows] /\ DOMAIN disk' \subseteq Files \X Int
    <3>1. CASE disk' = disk
      BY <3>1 DEF TypeOK
    <3>2. CASE disk' = Written(Sampled(c), frame[c])
      BY <2>3, <3>2, WrittenType
    <3> QED
      BY <1>6, <3>1, <3>2 DEF TakeSample
  <2> QED
    BY <1>6, <2>2, <2>4, <2>5 DEF TakeSample, TypeOK, nodeVars, history
<1>7. ASSUME NEW c \in Clients, TakeWriteImage(c) PROVE TypeOK'
  <2>1. Received(c, "write_image") /\ frame[c] \in Int
    BY <1>7 DEF TakeWriteImage, TypeOK
  <2>2. AfterReceive(c) \in [Clients -> Seq(ToServer)]
    BY <2>1, ReceiveType
  <2>3. films \in [DOMAIN films -> SUBSET Windows]
    BY DEF TypeOK
  <2> QED
    BY <1>7, <2>1, <2>2, <2>3, WrittenType DEF TakeWriteImage, TypeOK, nodeVars, history
<1>8. ASSUME NEW c \in Clients, GrantCropWindow(c) PROVE TypeOK'
  <2> DEFINE win == [frame |-> nextFrame, place |-> NextPlace(c)]
  <2>1. Received(c, "request_render_task") /\ AfterReceive(c) \in [Clients -> Seq(ToServer)]
    BY <1>8, ReceiveType DEF GrantCropWindow
  <2>2. win \in CropWindow
    BY NextPlaceType DEF CropWindow, TypeOK
  <2>3. Send(c, RenderCrop(win)) \in [Clients -> Seq(ToClient)]
    BY <2>2, MessageTypes, SendType
  <2>4. Append(cropWindows, win) \in Seq(CropWindow)
    BY <2>2 DEF TypeOK
  <2> HIDE DEF win
  <2>5. cropWindows' = Append(cropWindows, win) /\ toClient' = Send(c, RenderCrop(win))
    BY <1>8 DEF GrantCropWindow, win
  <2> QED
    BY <1>8, <2>1, <2>3, <2>4, <2>5 DEF GrantCropWindow, TypeOK, filmVars, history, RenderNodeStatus
<1>9. ASSUME NEW c \in Clients, EndCurrentFrame(c) PROVE TypeOK'
  <2>1. Received(c, "request_render_task") /\ AfterReceive(c) \in [Clients -> Seq(ToServer)]
    BY <1>9, ReceiveType DEF EndCurrentFrame
  <2>2. Send(c, EndFrame(frame[c])) \in [Clients -> Seq(ToClient)]
    BY MessageTypes, SendType DEF TypeOK
  <2> QED
    BY <1>9, <2>1, <2>2 DEF EndCurrentFrame, TypeOK, svrVars, filmVars, history, RenderNodeStatus
<1>10. ASSUME NEW c \in Clients, StartNextFrame(c) PROVE TypeOK'
  <2>1. Received(c, "request_render_task") /\ AfterReceive(c) \in [Clients -> Seq(ToServer)]
    BY <1>10, ReceiveType DEF StartNextFrame, LeavesFrame
  <2>2. EndFrameStep(c)
    BY <1>10 DEF StartNextFrame
  <2>3. Send(c, StartFrame(NextAfter(c))) \in [Clients -> Seq(ToClient)]
    BY <2>2, EndFrameType, MessageTypes, SendType
  <2> QED
    BY <1>10, <2>1, <2>2, <2>3, EndFrameType
       DEF StartNextFrame, TypeOK, history, RenderNodeStatus
<1>11. ASSUME NEW c \in Clients, GoIdle(c) PROVE TypeOK'
  <2>1. Received(c, "request_render_task") /\ AfterReceive(c) \in [Clients -> Seq(ToServer)]
    BY <1>11, ReceiveType DEF GoIdle, LeavesFrame
  <2>2. EndFrameStep(c)
    BY <1>11 DEF GoIdle
  <2> QED
    BY <1>11, <2>1, <2>2, EndFrameType DEF GoIdle, TypeOK, history, RenderNodeStatus
<1>12. ASSUME NEW c \in Clients, jobFiles # <<>>, EndScene(c) PROVE TypeOK'
  <2> DEFINE st == [status EXCEPT ![c] = "IDLE"]
  <2>1. Received(c, "request_render_task") /\ AfterReceive(c) \in [Clients -> Seq(ToServer)]
    BY <1>12, ReceiveType DEF EndScene, LeavesFrame
  <2>2. EndFrameStep(c)
    BY <1>12 DEF EndScene
  <2>3. Tail(jobFiles) \in Seq(Job) /\ finished' \in Seq(Job)
    BY <1>12 DEF EndScene, TypeOK
  <2>4. st \in [Clients -> RenderNodeStatus]
    BY DEF TypeOK, RenderNodeStatus
  <2>5. EndSceneSent \in [Clients -> Seq(ToClient)]
    BY MessageTypes DEF EndSceneSent, TypeOK
  <2>6. DoRenderScene(Tail(jobFiles), EndedCur(c), EndedNext(c), type, FramesAfter(c), st, EndSceneSent)
    BY <1>12 DEF EndScene
  <2>7. /\ jobFiles' \in Seq(Job) /\ curFrame' \in Int /\ nextFrame' \in Int
        /\ films' \in [DOMAIN films' -> SUBSET Windows] /\ DOMAIN films' \subseteq Int
        /\ frame' \in [Clients -> Int] /\ status' \in [Clients -> RenderNodeStatus]
        /\ toClient' \in [Clients -> Seq(ToClient)]
    <3> HIDE DEF st
    <3> QED
      BY <2>2, <2>3, <2>4, <2>5, <2>6, EndFrameType, DoRenderSceneType
  <2> QED
    BY <1>12, <2>1, <2>2, <2>3, <2>7, EndFrameType DEF EndScene, TypeOK
<1>13. ASSUME NEW c \in Clients, RendererStep(c) \/ ScriptFails(c) \/ ControllerRead(c) PROVE TypeOK'
  <2> USE DEF clientUnchanged
  <2>1. ASSUME DoRenderCrop(c) PROVE TypeOK'
    <3>1. toServer' \in [Clients -> Seq(ToServer)]
      BY <2>1, AnswerType, ReplyType
    <3>2. AfterDelivery(c) \in [Clients -> Seq(ToClient)]
      BY <2>1, DeliverType DEF DoRenderCrop, Delivered
    <3> QED
      BY <2>1, <3>1, <3>2 DEF DoRenderCrop, TypeOK, svrVars, filmVars, nodeVars
  <2>2. ASSUME DoStartFrame(c) PROVE TypeOK'
    <3>1. /\ Head(toClient[c]) \in ToClient /\ Head(toClient[c]).kind = "start_frame"
          /\ AfterDelivery(c) \in [Clients -> Seq(ToClient)]
      BY <2>2, DeliverType DEF DoStartFrame, Delivered
    <3>2. Head(toClient[c]).frame \in Int
      BY <3>1, MessageFields
    <3>3. scene' \in [Clients -> Scene]
      BY <2>2, <3>2 DEF DoStartFrame, TypeOK, Scene
    <3>4. toServer' \in [Clients -> Seq(ToServer)]
      <4>1. <<RequestTask>> \in Seq(ToServer)
        BY MessageTypes
      <4> QED
        BY <2>2, <4>1, ReplyType DEF DoStartFrame
    <3> QED
      BY <2>2, <3>1, <3>3, <3>4 DEF DoStartFrame, TypeOK, svrVars, filmVars, nodeVars
  <2>3. ASSUME TaskFails(c) PROVE TypeOK'
    <3>1. AfterDelivery(c) \in [Clients -> Seq(ToClient)]
      BY <2>3, DeliverType DEF TaskFails, Delivered
    <3>2. faults' \in 0 .. MaxFaults
      BY <2>3, FaultsAssumption DEF TaskFails, Fault, TypeOK
    <3>3. toClient' \in [Clients -> Seq(ToClient)]
      BY <2>3, <3>1 DEF TaskFails
    <3> QED
      BY <2>3, <3>2, <3>3 DEF TaskFails, TypeOK, svrVars, filmVars, nodeVars
  <2>4. ASSUME DoEndFrame(c) PROVE TypeOK'
    <3>1. AfterDelivery(c) \in [Clients -> Seq(ToClient)]
      BY <2>4, DeliverType DEF DoEndFrame, Delivered
    <3>2. <<RequestTask>> \in Seq(ToServer)
      BY MessageTypes
    <3>3. toServer' \in [Clients -> Seq(ToServer)]
      BY <2>4, <3>2, ReplyType DEF DoEndFrame
    <3> QED
      BY <2>4, <3>1, <3>3 DEF DoEndFrame, TypeOK, svrVars, filmVars, nodeVars
  <2>5. ASSUME DoStartRenderScene(c) PROVE TypeOK'
    <3>1. /\ Head(toClient[c]) \in ToClient /\ Head(toClient[c]).kind = "start_render_scene"
          /\ AfterDelivery(c) \in [Clients -> Seq(ToClient)]
      BY <2>5, DeliverType DEF DoStartRenderScene, Delivered
    <3>2. Head(toClient[c]).file \in Files
      BY <3>1, MessageFields
    <3>3. scene' \in [Clients -> Scene]
      BY <2>5, <3>2 DEF DoStartRenderScene, TypeOK, Scene, SceneOf
    <3> QED
      BY <2>5, <3>1, <3>3 DEF DoStartRenderScene, TypeOK, svrVars, filmVars, nodeVars
  <2>6. ASSUME DoEndRenderScene(c) PROVE TypeOK'
    <3>1. AfterDelivery(c) \in [Clients -> Seq(ToClient)]
      BY <2>6, DeliverType DEF DoEndRenderScene, Delivered
    <3>2. scene' \in [Clients -> Scene]
      <4>1. scene[c].script \in Files \cup {NoFile}
        BY DEF TypeOK, Scene
      <4>2. [script |-> scene[c].script, file |-> NoFile, frame |-> -1] \in Scene
        BY <4>1 DEF Scene
      <4> QED
        BY <2>6, <4>2 DEF DoEndRenderScene, TypeOK
    <3> QED
      BY <2>6, <3>1, <3>2 DEF DoEndRenderScene, TypeOK, svrVars, filmVars, nodeVars
  <2>7. ASSUME ControllerRead(c) PROVE TypeOK'
    <3>1. AfterDelivery(c) \in [Clients -> Seq(ToClient)]
      BY <2>7, DeliverType DEF ControllerRead
    <3> QED
      BY <2>7, <3>1 DEF ControllerRead, TypeOK, svrVars, filmVars, nodeVars
  <2>8. ASSUME StartSceneFails(c) PROVE TypeOK'
    <3> DEFINE told == Head(toClient[c]).file
    <3>1. /\ Head(toClient[c]) \in ToClient /\ Head(toClient[c]).kind = "start_render_scene"
          /\ AfterDelivery(c) \in [Clients -> Seq(ToClient)]
      BY <2>8, DeliverType DEF StartSceneFails, Delivered
    <3>2. told \in Files /\ scene[c] \in Scene
      BY <3>1, MessageFields DEF TypeOK
    <3>3. scene' \in [Clients -> Scene]
      <4>1. PICK script \in {scene[c].script, told} :
              \E file \in IF HasRenderer(c) THEN {scene[c].file} ELSE {NoFile, script} :
                scene' = [scene EXCEPT ![c] = [script |-> script, file |-> file, frame |-> -1]]
        BY <2>8 DEF StartSceneFails
      <4>2. PICK file \in IF HasRenderer(c) THEN {scene[c].file} ELSE {NoFile, script} :
              scene' = [scene EXCEPT ![c] = [script |-> script, file |-> file, frame |-> -1]]
        BY <4>1
      <4>3. script \in Files \cup {NoFile} /\ scene[c].file \in Files \cup {NoFile}
        BY <3>2 DEF Scene
      <4>4. [script |-> script, file |-> file, frame |-> -1] \in Scene
        BY <4>2, <4>3 DEF Scene
      <4> QED
        BY <4>2, <4>4 DEF TypeOK
    <3>4. failures' \subseteq Failure
      BY <2>8, <3>2 DEF StartSceneFails, AfterFailure, Failure, TypeOK
    <3>5. faults' \in 0 .. MaxFaults
      BY <2>8, FaultsAssumption DEF StartSceneFails, Fault, TypeOK
    <3> QED
      BY <2>8, <3>1, <3>3, <3>4, <3>5
         DEF StartSceneFails, TypeOK, svrVars, filmVars, nodeVars
  <2>9. ASSUME EndSceneFails(c) PROVE TypeOK'
    <3>1. AfterDelivery(c) \in [Clients -> Seq(ToClient)]
      BY <2>9, DeliverType DEF EndSceneFails, Delivered
    <3>2. scene[c].file \in Files
      BY <2>9 DEF EndSceneFails, HasRenderer, TypeOK, Scene
    <3>3. failures' \subseteq Failure
      BY <2>9, <3>2 DEF EndSceneFails, AfterFailure, Failure, TypeOK
    <3>4. faults' \in 0 .. MaxFaults
      BY <2>9, FaultsAssumption DEF EndSceneFails, Fault, TypeOK
    <3> QED
      BY <2>9, <3>1, <3>3, <3>4 DEF EndSceneFails, TypeOK, svrVars, filmVars, nodeVars
  <2> QED
    BY <1>13, <2>1, <2>2, <2>3, <2>4, <2>5, <2>6, <2>7, <2>8, <2>9 DEF RendererStep, ScriptFails
<1>14. CASE UNCHANGED vars
  BY <1>14 DEF vars, svrVars, filmVars, nodeVars, history, TypeOK
<1>15. ASSUME NEW c \in Clients, EndScene(c) PROVE jobFiles # <<>>
  <2>1. c \in connections /\ toServer[c] # <<>> /\ status[c] # "IDLE"
        /\ Head(toServer[c]).kind = "request_render_task"
    BY <1>15 DEF EndScene, LeavesFrame, Received
  <2>2. 1 \in DOMAIN toServer[c] /\ Head(toServer[c]) = toServer[c][1]
    BY <2>1 DEF TypeOK
  <2>3. c \notin Controllers
    BY <2>1, <2>2 DEF Roles
  <2> QED
    BY <2>1, <2>3 DEF Roles, BusyInFrontJob, Busy, Clients
<1> QED
  BY <1>1, <1>2, <1>3, <1>4, <1>5, <1>6, <1>7, <1>8, <1>9, <1>10, <1>11, <1>12, <1>13, <1>14, <1>15
     DEF Next, ServerStep, RequestRenderTask, RenderScene, Clients

-----------------------------------------------------------------------------
(***************************************************************************)
(* The server serves the front job, one task at a time to each client.     *)
(***************************************************************************)

(***************************************************************************)
(* One task at a time.  Orderly is OneTask for one renderer with received  *)
(* messages ins, sent messages outs, connected or not, and status st.      *)
(***************************************************************************)
Orderly(ins, outs, connected, st) ==
  /\ \A i \in DOMAIN outs :
       Task(outs[i]) => i = Len(outs) /\ ins = <<>> /\ (connected => st # "IDLE")
  /\ \A i \in DOMAIN ins : (ins[i].kind = "request_render_task") <=> (i = Len(ins))
  /\ ins # <<>> => connected /\ st # "IDLE"

\* OneTask says of every renderer that it is orderly.
LEMMA OneTaskOrderly ==
  OneTask <=> \A r \in Renderers : Orderly(toServer[r], toClient[r], r \in connections, status[r])
BY DEF OneTask, Orderly

NoTask(outs) == \A i \in DOMAIN outs : ~Task(outs[i])

\* Nothing is under way to or from an idle node or one that was lost.
LEMMA OrderlyIdle ==
  ASSUME NEW ins \in Seq(ToServer), NEW outs \in Seq(ToClient), NEW st
  PROVE  /\ Orderly(ins, outs, TRUE, "IDLE") => ins = <<>> /\ NoTask(outs)
         /\ Orderly(<<>>, <<>>, TRUE, st) /\ Orderly(<<>>, <<>>, FALSE, st)
BY DEF Orderly, NoTask

\* The tail of a sequence of one element.
LEMMA TailOfOne ==
  ASSUME NEW S, NEW s \in Seq(S), Len(s) = 1
  PROVE  Tail(s) = <<>>
<1>1. Tail(s) \in Seq(S) /\ Len(Tail(s)) = 0
  OBVIOUS
<1>2. \A t \in Seq(S) : Len(t) = 0 => t = <<>>
  OBVIOUS
<1> QED
  BY <1>1, <1>2

\* The server reads a message other than a request.
LEMMA OrderlyRead ==
  ASSUME NEW ins \in Seq(ToServer), NEW outs \in Seq(ToClient), NEW st,
         Orderly(ins, outs, TRUE, st), ins # <<>>, Head(ins).kind # "request_render_task"
  PROVE  Orderly(Tail(ins), outs, TRUE, st)
<1>1. Len(ins) # 1
  BY DEF Orderly
<1>2. \A i \in DOMAIN Tail(ins) : i + 1 \in DOMAIN ins /\ Tail(ins)[i] = ins[i + 1]
  OBVIOUS
<1>3. Len(Tail(ins)) = Len(ins) - 1
  OBVIOUS
<1> QED
  BY <1>1, <1>2, <1>3 DEF Orderly

\* The server reads a request: it was all there is, and no task is under way.
LEMMA OrderlyRequest ==
  ASSUME NEW ins \in Seq(ToServer), NEW outs \in Seq(ToClient), NEW st,
         Orderly(ins, outs, TRUE, st), ins # <<>>, Head(ins).kind = "request_render_task"
  PROVE  Tail(ins) = <<>> /\ NoTask(outs)
<1>1. 1 \in DOMAIN ins /\ Head(ins) = ins[1]
  OBVIOUS
<1>2. Len(ins) = 1
  BY <1>1 DEF Orderly
<1>3. Tail(ins) = <<>>
  BY <1>2, TailOfOne
<1>4. NoTask(outs)
  BY DEF Orderly, NoTask
<1> QED
  BY <1>3, <1>4

\* The server sends a task, or a message that is none, after other messages.
LEMMA OrderlySend ==
  ASSUME NEW outs \in Seq(ToClient), NEW m \in ToClient, NEW st, NoTask(outs)
  PROVE  /\ st # "IDLE" => Orderly(<<>>, Append(outs, m), TRUE, st)
         /\ Orderly(<<>>, outs, TRUE, st)
BY DEF Orderly, NoTask

\* A message that is no task adds none to a channel.
LEMMA NoTaskAppend ==
  ASSUME NEW outs \in Seq(ToClient), NEW m \in ToClient, NoTask(outs), ~Task(m)
  PROVE  NoTask(Append(outs, m)) /\ Append(outs, m) \in Seq(ToClient)
BY DEF NoTask

\* The client reads a message that is no task.
LEMMA OrderlyDeliver ==
  ASSUME NEW ins \in Seq(ToServer), NEW outs \in Seq(ToClient), NEW st,
         Orderly(ins, outs, TRUE, st), outs # <<>>, ~Task(Head(outs))
  PROVE  Orderly(ins, Tail(outs), TRUE, st)
<1>1. \A i \in DOMAIN Tail(outs) : i + 1 \in DOMAIN outs /\ Tail(outs)[i] = outs[i + 1]
  OBVIOUS
<1>2. Len(Tail(outs)) = Len(outs) - 1
  OBVIOUS
<1> QED
  BY <1>1, <1>2 DEF Orderly

\* The client reads a task: it was all there is, and nothing else is under way.
LEMMA OrderlyTask ==
  ASSUME NEW ins \in Seq(ToServer), NEW outs \in Seq(ToClient), NEW st,
         Orderly(ins, outs, TRUE, st), outs # <<>>, Task(Head(outs))
  PROVE  Tail(outs) = <<>> /\ ins = <<>> /\ st # "IDLE"
<1>1. 1 \in DOMAIN outs /\ Head(outs) = outs[1]
  OBVIOUS
<1>2. Len(outs) = 1 /\ ins = <<>> /\ st # "IDLE"
  BY <1>1 DEF Orderly
<1>3. Tail(outs) = <<>>
  BY <1>2, TailOfOne
<1> QED
  BY <1>2, <1>3

\* The answers of a client end with its only request.
LEMMA OrderlyReply ==
  ASSUME NEW st, st # "IDLE"
  PROVE  /\ Orderly(<<>> \o <<RequestTask>>, <<>>, TRUE, st)
         /\ \A s, p : Orderly(<<>> \o <<AddSample(s, p), WriteImage, RequestTask>>, <<>>, TRUE, st)
BY DEF Orderly, RequestTask, WriteImage, AddSample

\* Which messages to a client are tasks.
LEMMA TaskKinds ==
  /\ ~Task(EndRenderScene)
  /\ \A f : ~Task(StartRenderScene(f))
  /\ \A m \in ToClient : Task(m) <=> m.kind \notin {"start_render_scene", "end_render_scene"}
BY DEF Task, ToClient, EndRenderScene, StartRenderScene

OrderlyAt(r) == Orderly(toServer[r], toClient[r], r \in connections, status[r])

\* A step that concerns one client keeps the others orderly.
LEMMA OrderlyOthers ==
  ASSUME OneTask, NEW c,
         \A r \in Renderers \ {c} :
           /\ toServer'[r] = toServer[r] /\ toClient'[r] = toClient[r] /\ status'[r] = status[r]
           /\ r \in connections' <=> r \in connections,
         c \in Renderers => OrderlyAt(c)'
  PROVE  OneTask'
BY DEF OneTask, OrderlyAt, Orderly

\* do_render_scene gives a task to idle clients only.
LEMMA DoRenderSceneOrderly ==
  ASSUME TypeOK, NEW q \in Seq(Job), NEW cur, NEW nxt, NEW tp, NEW fr, NEW st,
         NEW out \in [Clients -> Seq(ToClient)], NEW ins \in [Clients -> Seq(ToServer)],
         DoRenderScene(q, cur, nxt, tp, fr, st, out),
         toServer' = ins, UNCHANGED connections,
         \A r \in Renderers : Orderly(ins[r], out[r], r \in connections, st[r])
  PROVE  OneTask'
<1> DEFINE job == Head(q)
           started == q # <<>> /\ job.file \notin BrokenStartup
           woken == {r \in connections : started /\ tp[r] # "CONTROLLER" /\ st[r] = "IDLE"}
           load == StartRenderScene(job.file)
           start == StartFrame(job.begin)
<1>1. /\ status' = [r \in Clients |-> IF r \in woken THEN "START_FRAME" ELSE st[r]]
      /\ toClient' = [r \in Clients |-> IF r \in woken THEN out[r] \o <<load, start>> ELSE out[r]]
  BY DEF DoRenderScene
<1> SUFFICES ASSUME NEW r \in Renderers
             PROVE  Orderly(toServer[r], toClient[r], r \in connections, status[r])'
  BY DEF OneTask, Orderly
<1>2. r \in Clients
  BY DEF Clients
<1>3. CASE r \in woken
  <2>1. job \in Job
    BY <1>3
  <2>2. load \in ToClient /\ start \in ToClient
    BY <2>1, MessageTypes DEF Job
  <2>3. ~Task(load)
    BY TaskKinds
  <2>4. r \in connections /\ st[r] = "IDLE"
    BY <1>3
  <2>5. Orderly(ins[r], out[r], TRUE, "IDLE")
    BY <2>4 DEF Orderly
  <2>6. ins[r] = <<>> /\ NoTask(out[r])
    BY <1>2, <2>5, OrderlyIdle
  <2>7. NoTask(Append(out[r], load)) /\ Append(out[r], load) \in Seq(ToClient)
    <3> HIDE DEF load
    <3>1. out[r] \in Seq(ToClient)
      BY <1>2
    <3> QED
      BY <2>2, <2>3, <2>6, <3>1, NoTaskAppend
  <2>8. Orderly(<<>>, Append(Append(out[r], load), start), TRUE, "START_FRAME")
    BY <2>2, <2>7, OrderlySend
  <2>9. out[r] \o <<load, start>> = Append(Append(out[r], load), start)
    BY <1>2, <2>2
  <2> HIDE DEF load, start
  <2>10. toServer'[r] = <<>> /\ toClient'[r] = Append(Append(out[r], load), start)
         /\ status'[r] = "START_FRAME" /\ r \in connections'
    BY <1>1, <1>2, <1>3, <2>4, <2>6, <2>9
  <2> QED
    BY <2>8, <2>10 DEF Orderly
<1>4. CASE r \notin woken
  <2>1. toServer'[r] = ins[r] /\ toClient'[r] = out[r] /\ status'[r] = st[r]
    BY <1>1, <1>2, <1>4
  <2> QED
    BY <2>1 DEF Orderly
<1> QED
  BY <1>3, <1>4

\* A request comes from a renderer that is busy with the front job, and is all
\* there is under way to or from it.
LEMMA RequestFacts ==
  ASSUME ServesFrontJob, NEW c \in Clients, Received(c, "request_render_task")
  PROVE  /\ c \in Renderers /\ c \in connections /\ status[c] # "IDLE"
         /\ type[c] = "RENDERER"
         /\ jobFiles # <<>> /\ frame[c] \in FramesOf(Head(jobFiles)) /\ frame[c] \in DOMAIN films
         /\ frame[c] <= nextFrame
         /\ AfterReceive(c)[c] = <<>> /\ NoTask(toClient[c])
<1> USE DEF ServesFrontJob
<1>1. c \in connections /\ toServer[c] \in Seq(ToServer) /\ toServer[c] # <<>>
      /\ toClient[c] \in Seq(ToClient) /\ Head(toServer[c]).kind = "request_render_task"
  BY DEF Received, TypeOK
<1>2. 1 \in DOMAIN toServer[c] /\ Head(toServer[c]) = toServer[c][1]
  BY <1>1
<1>3. c \in Renderers
  BY <1>1, <1>2 DEF Roles, Clients
<1>4. status[c] # "IDLE" /\ type[c] = "RENDERER"
  BY <1>1, <1>3 DEF OneTask, Roles
<1>5. Orderly(toServer[c], toClient[c], TRUE, status[c])
  BY <1>1, <1>3 DEF OneTask, Orderly
<1>6. Tail(toServer[c]) = <<>> /\ NoTask(toClient[c])
  BY <1>1, <1>5, OrderlyRequest
<1>7. AfterReceive(c)[c] = <<>>
  BY <1>6 DEF AfterReceive, TypeOK
<1> QED
  BY <1>1, <1>3, <1>4, <1>6, <1>7 DEF BusyInFrontJob, Busy, FramesInOrder
\* Every step keeps OneTask.
LEMMA OneTaskStep ==
  ASSUME ServesFrontJob, [Next]_vars
  PROVE  OneTask'
<1> USE DEF ServesFrontJob
<1>0. Renderers \subseteq Clients /\ \A r \in Renderers : r \notin Controllers
  BY ClientsAssumption DEF Clients
<1>1. ASSUME NEW c \in Clients, Accept(c) PROVE OneTask'
  <2>1. c \in Renderers => OrderlyAt(c)'
    <3> SUFFICES ASSUME c \in Renderers PROVE OrderlyAt(c)'
      OBVIOUS
    <3>1. toServer'[c] = <<>> /\ toClient'[c] = <<>>
      BY <1>0, <1>1 DEF Accept, TypeOK
    <3> QED
      BY <3>1 DEF OrderlyAt, Orderly
  <2> QED
    BY <1>0, <1>1, <2>1, OrderlyOthers DEF Accept, TypeOK
<1>2. ASSUME AcceptFails PROVE OneTask'
  BY <1>2 DEF AcceptFails, OneTask, nodeVars
<1>3. ASSUME NEW c \in Clients, LoseClient(c) PROVE OneTask'
  <2>1. c \in Renderers => OrderlyAt(c)'
    BY <1>3 DEF LoseClient, TypeOK, OneTask, OrderlyAt, Orderly, svrVars, nodeVars
  <2> QED
    BY <1>0, <1>3, <2>1, OrderlyOthers DEF LoseClient, TypeOK, svrVars, nodeVars
<1>4. ASSUME NEW c \in Clients, DisconnectRenderNode(c) PROVE OneTask'
  <2>1. c \in Renderers => OrderlyAt(c)'
    <3> SUFFICES ASSUME c \in Renderers PROVE OrderlyAt(c)'
      OBVIOUS
    <3>1. toServer'[c] = <<>> /\ toClient'[c] = <<>>
      BY <1>4 DEF DisconnectRenderNode, TypeOK
    <3> QED
      BY <3>1 DEF OrderlyAt, Orderly
  <2> QED
    BY <1>0, <1>4, <2>1, OrderlyOthers DEF DisconnectRenderNode, TypeOK, nodeVars
<1>5. ASSUME NEW c \in Clients, RenderScene(c) PROVE OneTask'
  <2> DEFINE job == Head(toServer[c]).job
             tp == [type EXCEPT ![c] = "CONTROLLER"]
  <2>1. Received(c, "render_scene") /\ toServer' = AfterReceive(c) /\ UNCHANGED connections
    BY <1>5 DEF RenderScene
  <2>2. AfterReceive(c) \in [Clients -> Seq(ToServer)] /\ job \in Job
    BY <2>1, ReceiveType, MessageFields
  <2>3. c \notin Renderers
    <3>1. 1 \in DOMAIN toServer[c] /\ toServer[c][1].kind = "render_scene"
      BY <2>1 DEF Received, TypeOK
    <3> QED
      BY <3>1 DEF Roles
  <2>4. \A r \in Renderers : AfterReceive(c)[r] = toServer[r]
    BY <1>0, <2>3 DEF AfterReceive, TypeOK
  <2>5. CASE DoRenderScene(<<job>>, curFrame, nextFrame, tp, frame, status, toClient)
    <3>1. \A r \in Renderers : Orderly(AfterReceive(c)[r], toClient[r], r \in connections, status[r])
      BY <2>4 DEF OneTask, Orderly
    <3>2. <<job>> \in Seq(Job)
      BY <2>2
    <3>3. toClient \in [Clients -> Seq(ToClient)]
      BY DEF TypeOK
    <3> HIDE DEF job, tp
    <3> QED
      BY <2>1, <2>2, <2>5, <3>1, <3>2, <3>3, DoRenderSceneOrderly
  <2>6. CASE UNCHANGED <<status, toClient>>
    BY <2>1, <2>4, <2>6 DEF OneTask
  <2> QED
    BY <1>5, <2>5, <2>6 DEF RenderScene
<1>6. ASSUME NEW c \in Clients, TakeSample(c) \/ TakeWriteImage(c) PROVE OneTask'
  <2>1. /\ c \in connections /\ toServer[c] # <<>> /\ Head(toServer[c]).kind # "request_render_task"
        /\ toServer' = AfterReceive(c) /\ UNCHANGED <<connections, toClient, status>>
    BY <1>6 DEF TakeSample, TakeWriteImage, Received, nodeVars
  <2>2. c \in Renderers => OrderlyAt(c)'
    <3> SUFFICES ASSUME c \in Renderers PROVE OrderlyAt(c)'
      OBVIOUS
    <3>1. Orderly(toServer[c], toClient[c], TRUE, status[c])
      BY <2>1 DEF OneTask, Orderly
    <3>2. toServer[c] \in Seq(ToServer) /\ toClient[c] \in Seq(ToClient) /\ toServer'[c] = Tail(toServer[c])
      BY <2>1 DEF AfterReceive, TypeOK
    <3>3. Orderly(Tail(toServer[c]), toClient[c], TRUE, status[c])
      BY <2>1, <3>1, <3>2, OrderlyRead
    <3> QED
      BY <2>1, <3>2, <3>3 DEF OrderlyAt, Orderly
  <2> QED
    BY <1>0, <2>1, <2>2, OrderlyOthers DEF AfterReceive, TypeOK
<1>7. ASSUME NEW c \in Clients, NEW m \in ToClient, NEW st \in RenderNodeStatus, st # "IDLE",
             Received(c, "request_render_task"), toServer' = AfterReceive(c), UNCHANGED connections,
             toClient' = Send(c, m), status' = [status EXCEPT ![c] = st]
      PROVE  OneTask'
  <2>1. c \in Renderers /\ c \in connections /\ AfterReceive(c)[c] = <<>> /\ NoTask(toClient[c])
    BY <1>7, RequestFacts
  <2>2. toClient[c] \in Seq(ToClient) /\ toClient'[c] = Append(toClient[c], m) /\ status'[c] = st
    BY <1>7 DEF Send, TypeOK
  <2>3. Orderly(<<>>, Append(toClient[c], m), TRUE, st)
    BY <1>7, <2>1, <2>2, OrderlySend
  <2>4. OrderlyAt(c)'
    BY <1>7, <2>1, <2>2, <2>3 DEF OrderlyAt, Orderly
  <2> QED
    BY <1>0, <1>7, <2>4, OrderlyOthers DEF AfterReceive, Send, TypeOK
<1>8. ASSUME NEW c \in Clients, GrantCropWindow(c) PROVE OneTask'
  <2> DEFINE m == RenderCrop([frame |-> nextFrame, place |-> NextPlace(c)])
  <2>1. m \in ToClient
    BY NextPlaceType, MessageTypes DEF CropWindow, TypeOK
  <2>2. toClient' = Send(c, m)
    BY <1>8 DEF GrantCropWindow
  <2> HIDE DEF m
  <2> QED
    BY <1>7, <1>8, <2>1, <2>2 DEF GrantCropWindow, RenderNodeStatus
<1>9. ASSUME NEW c \in Clients, EndCurrentFrame(c) PROVE OneTask'
  <2>1. EndFrame(frame[c]) \in ToClient
    BY MessageTypes DEF TypeOK
  <2> QED
    BY <1>7, <1>9, <2>1 DEF EndCurrentFrame, RenderNodeStatus, svrVars
<1>10. ASSUME NEW c \in Clients, StartNextFrame(c) PROVE OneTask'
  <2>1. NextAfter(c) \in Int
    BY DEF NextAfter, TypeOK
  <2>2. StartFrame(NextAfter(c)) \in ToClient
    BY <2>1, MessageTypes
  <2> QED
    BY <1>7, <1>10, <2>2 DEF StartNextFrame, LeavesFrame, RenderNodeStatus
<1>11. ASSUME NEW c \in Clients, GoIdle(c) PROVE OneTask'
  <2>1. c \in Renderers /\ c \in connections /\ AfterReceive(c)[c] = <<>> /\ NoTask(toClient[c])
    BY <1>11, RequestFacts DEF GoIdle, LeavesFrame
  <2>2. toClient[c] \in Seq(ToClient) /\ toServer'[c] = <<>> /\ toClient'[c] = toClient[c]
    BY <1>11, <2>1 DEF GoIdle, TypeOK
  <2>3. OrderlyAt(c)'
    BY <2>1, <2>2 DEF OrderlyAt, Orderly, NoTask
  <2> QED
    BY <1>0, <1>11, <2>3, OrderlyOthers DEF GoIdle, AfterReceive, TypeOK
<1>12. ASSUME NEW c \in Clients, EndScene(c) PROVE OneTask'
  <2> DEFINE st == [status EXCEPT ![c] = "IDLE"]
  <2>1. /\ Received(c, "request_render_task") /\ toServer' = AfterReceive(c)
        /\ UNCHANGED connections /\ SceneEnds(c)
        /\ DoRenderScene(Tail(jobFiles), EndedCur(c), EndedNext(c), type, FramesAfter(c), st, EndSceneSent)
    BY <1>12 DEF EndScene, LeavesFrame
  <2>2. /\ c \in Renderers /\ c \in connections /\ AfterReceive(c)[c] = <<>>
        /\ NoTask(toClient[c]) /\ jobFiles # <<>>
    BY <2>1, RequestFacts
  <2>3. Tail(jobFiles) \in Seq(Job) /\ AfterReceive(c) \in [Clients -> Seq(ToServer)]
    BY <2>1, <2>2, ReceiveType DEF TypeOK
  <2>4. EndSceneSent \in [Clients -> Seq(ToClient)]
    BY MessageTypes DEF EndSceneSent, TypeOK
  <2>5. ASSUME NEW r \in Renderers
        PROVE  Orderly(AfterReceive(c)[r], EndSceneSent[r], r \in connections, st[r])
    <3>0. /\ toClient[r] \in Seq(ToClient) /\ toServer[r] \in Seq(ToServer)
          /\ r \in Clients /\ type[r] = "RENDERER"
      BY <1>0 DEF TypeOK, Roles
    <3>1. CASE r \in connections
      <4>1. EndSceneSent[r] = Append(toClient[r], EndRenderScene)
        BY <3>0, <3>1 DEF EndSceneSent
      <4>2. st[r] = "IDLE"
        BY <2>1, <3>0, <3>1 DEF SceneEnds, TypeOK
      <4>3. AfterReceive(c)[r] = <<>> /\ NoTask(toClient[r])
        <5>1. CASE r = c
          BY <2>2, <5>1
        <5>2. CASE r # c
          <6>1. status[r] = "IDLE"
            BY <2>1, <3>0, <3>1, <5>2 DEF SceneEnds
          <6>2. Orderly(toServer[r], toClient[r], TRUE, "IDLE")
            BY <3>1, <6>1 DEF OneTask, Orderly
          <6>3. toServer[r] = <<>> /\ NoTask(toClient[r])
            BY <3>0, <6>2, OrderlyIdle
          <6> QED
            BY <3>0, <5>2, <6>3 DEF AfterReceive, TypeOK
        <5> QED
          BY <5>1, <5>2
      <4>4. NoTask(Append(toClient[r], EndRenderScene))
        BY <3>0, <4>3, MessageTypes, TaskKinds, NoTaskAppend
      <4> QED
        BY <4>1, <4>3, <4>4 DEF Orderly, NoTask
    <3>2. CASE r \notin connections
      <4>1. EndSceneSent[r] = toClient[r] /\ AfterReceive(c)[r] = toServer[r]
        BY <2>2, <3>0, <3>2 DEF EndSceneSent, AfterReceive, TypeOK
      <4> QED
        BY <3>2, <4>1 DEF OneTask, Orderly
    <3> QED
      BY <3>1, <3>2
  <2> HIDE DEF st
  <2> QED
    BY <2>1, <2>3, <2>4, <2>5, DoRenderSceneOrderly
<1>13. ASSUME NEW c \in Renderers, RendererStep(c) \/ ScriptFails(c) PROVE OneTask'
  <2> USE DEF clientUnchanged
  <2>1. /\ c \in Clients /\ c \in connections /\ toClient[c] # <<>> /\ toClient[c] \in Seq(ToClient)
        /\ toServer[c] \in Seq(ToServer) /\ Head(toClient[c]) \in ToClient
        /\ UNCHANGED <<connections, status>>
        /\ toClient'[c] = Tail(toClient[c])
        /\ \A r \in Renderers \ {c} : toClient'[r] = toClient[r]
    <3>1. c \in alive /\ toClient[c] # <<>> /\ UNCHANGED <<connections, status>>
          /\ toClient' = AfterDelivery(c)
      BY <1>13, ScriptFailsFacts DEF RendererStep, DoRenderCrop, DoStartFrame, DoEndFrame,
            DoStartRenderScene, DoEndRenderScene, Delivered, svrVars, nodeVars
    <3>2. c \in Clients /\ c \in connections
      BY <1>0, <3>1 DEF Roles
    <3>3. toClient[c] \in Seq(ToClient) /\ toServer[c] \in Seq(ToServer)
      BY <3>2 DEF TypeOK
    <3>4. Head(toClient[c]) \in ToClient
      BY <3>1, <3>3
    <3>5. toClient'[c] = Tail(toClient[c]) /\ \A r \in Renderers \ {c} : toClient'[r] = toClient[r]
      BY <1>0, <3>1, <3>2 DEF AfterDelivery, TypeOK
    <3> QED
      BY <3>1, <3>2, <3>3, <3>4, <3>5
  <2>2. Orderly(toServer[c], toClient[c], TRUE, status[c])
    BY <2>1 DEF OneTask, Orderly
  <2>3. ASSUME UNCHANGED toServer, Tail(toClient[c]) = <<>> \/ ~Task(Head(toClient[c]))
        PROVE  OneTask'
    <3>1. Orderly(toServer[c], Tail(toClient[c]), TRUE, status[c])
      <4>1. CASE ~Task(Head(toClient[c]))
        BY <2>1, <2>2, <4>1, OrderlyDeliver
      <4>2. CASE Tail(toClient[c]) = <<>>
        BY <2>2, <4>2 DEF Orderly
      <4> QED
        BY <2>3, <4>1, <4>2
    <3>2. OrderlyAt(c)'
      BY <2>1, <2>3, <3>1 DEF OrderlyAt, Orderly
    <3> QED
      BY <2>1, <2>3, <3>2, OrderlyOthers
  <2>4. ASSUME NEW msgs \in Seq(ToServer), toServer' = Reply(c, msgs), Task(Head(toClient[c])),
               \A st : st # "IDLE" => Orderly(<<>> \o msgs, <<>>, TRUE, st)
        PROVE  OneTask'
    <3>1. Tail(toClient[c]) = <<>> /\ toServer[c] = <<>> /\ status[c] # "IDLE"
      BY <2>1, <2>2, <2>4, OrderlyTask
    <3>2. toServer'[c] = <<>> \o msgs /\ \A r \in Renderers \ {c} : toServer'[r] = toServer[r]
      BY <1>0, <2>1, <2>4, <3>1 DEF Reply, TypeOK
    <3>3. Orderly(<<>> \o msgs, <<>>, TRUE, status[c])
      BY <2>4, <3>1
    <3>4. OrderlyAt(c)'
      BY <2>1, <3>1, <3>2, <3>3 DEF OrderlyAt, Orderly
    <3> QED
      BY <2>1, <3>2, <3>4, OrderlyOthers
  <2>5. ASSUME DoRenderCrop(c) PROVE OneTask'
    <3>1. Answer(c) \in Seq(ToServer) /\ toServer' = Reply(c, Answer(c))
      BY <2>1, <2>5, AnswerType
    <3>2. Task(Head(toClient[c]))
      BY <2>5 DEF DoRenderCrop, Delivered, Task
    <3>3. ASSUME NEW st, st # "IDLE" PROVE Orderly(<<>> \o Answer(c), <<>>, TRUE, st)
      BY <3>3, OrderlyReply DEF Answer
    <3> QED
      BY <2>4, <3>1, <3>2, <3>3
  <2>6. ASSUME DoStartFrame(c) \/ DoEndFrame(c) PROVE OneTask'
    <3>1. <<RequestTask>> \in Seq(ToServer)
      BY MessageTypes
    <3>2. toServer' = Reply(c, <<RequestTask>>) /\ Task(Head(toClient[c]))
      BY <2>6 DEF DoStartFrame, DoEndFrame, Delivered, Task
    <3> QED
      BY <2>4, <3>1, <3>2, OrderlyReply
  <2>7. ASSUME TaskFails(c) PROVE OneTask'
    <3>1. Task(Head(toClient[c])) /\ UNCHANGED toServer
      BY <2>7 DEF TaskFails, Delivered, Task
    <3>2. Tail(toClient[c]) = <<>>
      BY <2>1, <2>2, <3>1, OrderlyTask
    <3> QED
      BY <2>3, <3>1, <3>2
  <2>8. ASSUME \/ DoStartRenderScene(c) \/ DoEndRenderScene(c)
               \/ StartSceneFails(c) \/ EndSceneFails(c)
        PROVE  OneTask'
    <3>1. ~Task(Head(toClient[c])) /\ UNCHANGED toServer
      BY <2>8 DEF DoStartRenderScene, DoEndRenderScene, StartSceneFails, EndSceneFails, Delivered, Task
    <3> QED
      BY <2>3, <3>1
  <2> QED
    BY <1>13, <2>5, <2>6, <2>7, <2>8 DEF RendererStep, ScriptFails
<1>14. ASSUME NEW c \in Controllers, ControllerRead(c) PROVE OneTask'
  <2>1. c \in Clients /\ c \notin Renderers
    BY <1>0 DEF Clients
  <2> QED
    BY <1>14, <2>1, OrderlyOthers, <1>0
       DEF ControllerRead, clientUnchanged, AfterDelivery, TypeOK, svrVars, nodeVars
<1>15. CASE UNCHANGED vars
  BY <1>15 DEF vars, svrVars, nodeVars, OneTask
<1> QED
  BY <1>1, <1>2, <1>3, <1>4, <1>5, <1>6, <1>8, <1>9, <1>10, <1>11, <1>12, <1>13, <1>14, <1>15
     DEF Next, ServerStep, RequestRenderTask
-----------------------------------------------------------------------------
(***************************************************************************)
(* Who the clients are.                                                    *)
(***************************************************************************)

\* A channel after several more messages.
LEMMA ConcatSeq ==
  ASSUME NEW S, NEW s \in Seq(S), NEW t \in Seq(S), NEW i \in DOMAIN (s \o t)
  PROVE  \/ i \in DOMAIN s /\ (s \o t)[i] = s[i]
         \/ i - Len(s) \in DOMAIN t /\ (s \o t)[i] = t[i - Len(s)]
OBVIOUS

\* Every step keeps Roles: a render client never submits a job.
LEMMA RolesStep ==
  ASSUME ServesFrontJob, [Next]_vars
  PROVE  Roles'
<1> USE DEF ServesFrontJob
<1>0. Renderers \subseteq Clients /\ Controllers \subseteq Clients /\ \A r \in Renderers : r \notin Controllers
  BY ClientsAssumption DEF Clients
<1>1. ASSUME NEW c \in Clients, Accept(c) PROVE Roles'
  <2>1. alive' \subseteq connections' /\ \A r \in Renderers : type'[r] = "RENDERER"
    BY <1>0, <1>1 DEF Accept, Roles, TypeOK
  <2>2. ASSUME NEW r \in Renderers, NEW i \in DOMAIN toServer'[r]
        PROVE  toServer'[r][i].kind # "render_scene"
    <3>1. CASE r = c
      <4>1. toServer'[c] = <<>>
        BY <1>0, <1>1, <3>1 DEF Accept, TypeOK
      <4> QED
        BY <2>2, <3>1, <4>1
    <3>2. CASE r # c
      <4>1. toServer'[r] = toServer[r]
        BY <1>0, <1>1, <3>2 DEF Accept, TypeOK
      <4> QED
        BY <2>2, <4>1 DEF Roles
    <3> QED
      BY <3>1, <3>2
  <2>3. ASSUME NEW d \in Controllers, NEW i \in DOMAIN toServer'[d]
        PROVE  toServer'[d][i].kind = "render_scene"
    <3>1. CASE d = c
      <4>1. toServer'[d] = [k \in 1 .. Len(Script[d]) |-> SubmitJob(Script[d][k])]
        BY <1>0, <1>1, <3>1 DEF Accept, TypeOK
      <4>2. toServer'[d][i] = SubmitJob(Script[d][i])
        BY <2>3, <4>1
      <4> QED
        BY <4>2 DEF SubmitJob
    <3>2. CASE d # c
      <4>1. toServer'[d] = toServer[d]
        BY <1>0, <1>1, <3>2 DEF Accept, TypeOK
      <4> QED
        BY <2>3, <4>1 DEF Roles
    <3> QED
      BY <3>1, <3>2
  <2> QED
    BY <2>1, <2>2, <2>3 DEF Roles
<1>2. ASSUME AcceptFails PROVE Roles'
  BY <1>2 DEF AcceptFails, Roles, nodeVars
<1>3. ASSUME NEW c \in Clients, LoseClient(c) PROVE Roles'
  BY <1>3 DEF LoseClient, Roles, svrVars, nodeVars
<1>4. ASSUME NEW c \in Clients, DisconnectRenderNode(c) PROVE Roles'
  <2>1. \A d \in Clients : toServer'[d] = IF d = c THEN <<>> ELSE toServer[d]
    BY <1>4 DEF DisconnectRenderNode, TypeOK
  <2>2. alive' \subseteq connections' /\ type' = type
    BY <1>4 DEF DisconnectRenderNode, Roles, nodeVars
  <2> QED
    BY <1>0, <2>1, <2>2 DEF Roles
<1>5. ASSUME NEW c \in Clients, NEW k, Received(c, k), toServer' = AfterReceive(c),
             UNCHANGED <<alive, connections>>,
             UNCHANGED type \/ (k = "render_scene" /\ type' = [type EXCEPT ![c] = "CONTROLLER"])
      PROVE  Roles'
  <2>1. /\ toServer[c] \in Seq(ToServer) /\ toServer[c] # <<>> /\ Head(toServer[c]).kind = k
        /\ \A d \in Clients : toServer'[d] = IF d = c THEN Tail(toServer[c]) ELSE toServer[d]
    BY <1>5 DEF Received, AfterReceive, TypeOK
  <2>2. \A i \in DOMAIN Tail(toServer[c]) :
          i + 1 \in DOMAIN toServer[c] /\ Tail(toServer[c])[i] = toServer[c][i + 1]
    BY <2>1, TailOfSeq
  <2>3. 1 \in DOMAIN toServer[c] /\ Head(toServer[c]) = toServer[c][1]
    BY <2>1
  <2>4. \A r \in Renderers : type'[r] = "RENDERER"
    <3>1. k = "render_scene" => c \notin Renderers
      BY <2>1, <2>3 DEF Roles
    <3> QED
      BY <1>0, <1>5, <3>1 DEF Roles, TypeOK
  <2>5. \A d \in Clients : \A i \in DOMAIN toServer'[d] : \E j \in DOMAIN toServer[d] :
          toServer'[d][i] = toServer[d][j]
    BY <2>1, <2>2
  <2>6. \A r \in Renderers : \A i \in DOMAIN toServer'[r] : toServer'[r][i].kind # "render_scene"
    BY <1>0, <2>5 DEF Roles
  <2>7. \A d \in Controllers : \A i \in DOMAIN toServer'[d] : toServer'[d][i].kind = "render_scene"
    BY <1>0, <2>5 DEF Roles
  <2> QED
    BY <1>5, <2>4, <2>6, <2>7 DEF Roles
<1>6. ASSUME NEW c \in Clients, RenderScene(c) PROVE Roles'
  BY <1>5, <1>6 DEF RenderScene
<1>7. ASSUME NEW c \in Clients, TakeSample(c) \/ TakeWriteImage(c) PROVE Roles'
  BY <1>5, <1>7 DEF TakeSample, TakeWriteImage, nodeVars
<1>8. ASSUME NEW c \in Clients, RequestRenderTask(c) PROVE Roles'
  BY <1>5, <1>8 DEF RequestRenderTask, GrantCropWindow, EndCurrentFrame, StartNextFrame, GoIdle,
     EndScene, LeavesFrame, svrVars
<1>9. ASSUME NEW c \in Renderers, NEW msgs \in Seq(ToServer), toServer' = Reply(c, msgs),
             \A i \in DOMAIN msgs : msgs[i].kind # "render_scene", UNCHANGED <<alive, connections, type>>
      PROVE  Roles'
  <2>1. toServer[c] \in Seq(ToServer)
        /\ \A d \in Clients : toServer'[d] = IF d = c THEN toServer[c] \o msgs ELSE toServer[d]
    BY <1>0, <1>9 DEF Reply, TypeOK
  <2>2. \A i \in DOMAIN (toServer[c] \o msgs) :
          \/ i \in DOMAIN toServer[c] /\ (toServer[c] \o msgs)[i] = toServer[c][i]
          \/ i - Len(toServer[c]) \in DOMAIN msgs /\ (toServer[c] \o msgs)[i] = msgs[i - Len(toServer[c])]
    BY <1>9, <2>1, ConcatSeq
  <2>3. \A r \in Renderers : \A i \in DOMAIN toServer'[r] : toServer'[r][i].kind # "render_scene"
    <3> SUFFICES ASSUME NEW r \in Renderers, NEW i \in DOMAIN toServer'[r]
                 PROVE  toServer'[r][i].kind # "render_scene"
      OBVIOUS
    <3>1. CASE r = c
      <4>1. toServer'[r] = toServer[c] \o msgs
        BY <1>0, <2>1, <3>1
      <4>2. \A j \in DOMAIN toServer[c] : toServer[c][j].kind # "render_scene"
        BY DEF Roles
      <4>3. i \in DOMAIN (toServer[c] \o msgs)
        BY <4>1
      <4> QED
        BY <1>9, <2>2, <4>1, <4>2, <4>3
    <3>2. CASE r # c
      BY <1>0, <2>1, <3>2 DEF Roles
    <3> QED
      BY <3>1, <3>2
  <2> QED
    BY <1>0, <1>9, <2>1, <2>3 DEF Roles
<1>10. ASSUME NEW c \in Renderers, RendererStep(c) \/ ScriptFails(c) PROVE Roles'
  <2> USE DEF clientUnchanged
  <2>1. c \in Clients
    BY <1>0
  <2>2. ASSUME DoRenderCrop(c) PROVE Roles'
    <3>1. Answer(c) \in Seq(ToServer) /\ toServer' = Reply(c, Answer(c))
      BY <2>1, <2>2, AnswerType
    <3>2. \A i \in DOMAIN Answer(c) : Answer(c)[i].kind # "render_scene"
      BY DEF Answer, AddSample, WriteImage, RequestTask
    <3>3. UNCHANGED <<alive, connections, type>>
      BY <2>2 DEF DoRenderCrop, svrVars, nodeVars
    <3> QED
      BY <1>9, <3>1, <3>2, <3>3
  <2>3. ASSUME DoStartFrame(c) \/ DoEndFrame(c) PROVE Roles'
    <3>1. <<RequestTask>> \in Seq(ToServer) /\ \A i \in DOMAIN <<RequestTask>> : <<RequestTask>>[i].kind # "render_scene"
      BY MessageTypes DEF RequestTask
    <3>2. toServer' = Reply(c, <<RequestTask>>) /\ UNCHANGED <<alive, connections, type>>
      BY <2>3 DEF DoStartFrame, DoEndFrame, svrVars, nodeVars
    <3> QED
      BY <1>9, <3>1, <3>2
  <2>4. ASSUME ScriptFails(c) \/ DoStartRenderScene(c) \/ DoEndRenderScene(c) PROVE Roles'
    BY <2>4, ScriptFailsFacts DEF DoStartRenderScene, DoEndRenderScene, svrVars, nodeVars, Roles
  <2> QED
    BY <1>10, <2>2, <2>3, <2>4 DEF RendererStep
<1>11. ASSUME NEW c \in Controllers, ControllerRead(c) PROVE Roles'
  BY <1>11 DEF ControllerRead, clientUnchanged, svrVars, nodeVars, Roles
<1>12. CASE UNCHANGED vars
  BY <1>12 DEF vars, svrVars, nodeVars, Roles
<1> QED
  BY <1>1, <1>2, <1>3, <1>4, <1>6, <1>7, <1>8, <1>10, <1>11, <1>12 DEF Next, ServerStep
-----------------------------------------------------------------------------
(***************************************************************************)
(* The server's frames and films belong to the front job.                  *)
(***************************************************************************)
ServesJob == JobsHaveFrames /\ FilmsOfFrontJob /\ BusyInFrontJob /\ FramesInOrder

\* do_render_scene leaves films, frames and nodes at the begin of the front job,
\* when every renderer was idle.
LEMMA DoRenderSceneServes ==
  ASSUME TypeOK, NEW q \in Seq(Job), NEW cur, NEW nxt, NEW fr, NEW st, NEW out,
         connections' \subseteq Clients, UNCHANGED connections,
         \A i \in DOMAIN q : q[i].begin < q[i].end,
         \A r \in connections : type'[r] = "RENDERER" => st[r] = "IDLE",
         DoRenderScene(q, cur, nxt, type', fr, st, out)
  PROVE  ServesJob'
<1> DEFINE job == Head(q)
           started == q # <<>> /\ job.file \notin BrokenStartup
           woken == {r \in connections : started /\ type'[r] # "CONTROLLER" /\ st[r] = "IDLE"}
<1>1. /\ jobFiles' = q
      /\ curFrame' = IF q = <<>> THEN cur ELSE job.begin
      /\ nextFrame' = IF q = <<>> THEN nxt ELSE job.begin
      /\ films' = IF started THEN [f \in FramesOf(job) |-> {}] ELSE NoFilms
      /\ frame' = [r \in Clients |-> IF r \in woken THEN job.begin ELSE fr[r]]
      /\ status' = [r \in Clients |-> IF r \in woken THEN "START_FRAME" ELSE st[r]]
  BY DEF DoRenderScene
<1>2. q # <<>> => job.begin \in Int /\ job.end \in Int /\ job.begin < job.end
  <2> SUFFICES ASSUME q # <<>> PROVE job \in Job /\ job.begin < job.end
    BY DEF Job
  <2>1. 1 \in DOMAIN q /\ job = q[1] /\ job \in Job
    OBVIOUS
  <2> QED
    BY <2>1
<1>3. JobsHaveFrames'
  BY <1>1 DEF JobsHaveFrames
<1>4. FilmsOfFrontJob'
  <2>1. CASE started
    BY <1>1, <2>1 DEF FilmsOfFrontJob
  <2>2. CASE ~started
    BY <1>1, <2>2 DEF FilmsOfFrontJob, NoFilms
  <2> QED
    BY <2>1, <2>2
<1>5. ASSUME NEW r \in connections', type'[r] = "RENDERER", Busy(r)'
      PROVE  started /\ frame'[r] = job.begin
  <2>1. r \in connections /\ r \in Clients /\ status'[r] # "IDLE" /\ st[r] = "IDLE"
    BY <1>5 DEF Busy
  <2>2. r \in woken
    BY <1>1, <2>1
  <2> QED
    BY <1>1, <2>1, <2>2
<1>6. BusyInFrontJob'
  <2> SUFFICES ASSUME NEW r \in connections', type'[r] = "RENDERER", Busy(r)'
               PROVE  jobFiles' # <<>> /\ frame'[r] \in FramesOf(Head(jobFiles')) /\ frame'[r] \in DOMAIN films'
    BY DEF BusyInFrontJob, FramesOf
  <2>1. started /\ frame'[r] = job.begin
    BY <1>5
  <2>2. job.begin \in FramesOf(job)
    BY <1>2, <2>1 DEF FramesOf
  <2> QED
    BY <1>1, <2>1, <2>2
<1>7. FramesInOrder'
  BY <1>1, <1>2, <1>5 DEF FramesInOrder
<1> QED
  BY <1>3, <1>4, <1>6, <1>7 DEF ServesJob

\* Where end_frame leaves the server's frames: next_frame_ is the frame that the
\* node moved to, and cur_frame_ has not passed it.
LEMMA EndFrameFacts ==
  ASSUME ServesFrontJob, NEW c \in Clients, Received(c, "request_render_task")
  PROVE  LET job == Head(jobFiles)
         IN /\ job.begin \in Int /\ job.end \in Int
            /\ EndedNext(c) = NextAfter(c) /\ NextAfter(c) \in Int
            /\ nextFrame <= NextAfter(c) /\ NextAfter(c) <= job.end
            /\ EndedCur(c) \in Int /\ job.begin <= EndedCur(c) /\ EndedCur(c) <= NextAfter(c)
            /\ FrameAllDone(c) => curFrame < NextAfter(c)
<1> DEFINE job == Head(jobFiles)
<1> USE DEF ServesFrontJob
<1>1. /\ c \in connections /\ type[c] = "RENDERER" /\ jobFiles # <<>>
      /\ frame[c] \in job.begin .. (job.end - 1) /\ frame[c] <= nextFrame
  BY RequestFacts DEF FramesOf
<1>2. job \in Job
  BY <1>1 DEF TypeOK
<1>3. /\ job.begin \in Int /\ job.end \in Int /\ curFrame \in Int /\ nextFrame \in Int /\ frame[c] \in Int
      /\ job.begin <= curFrame /\ curFrame <= nextFrame /\ nextFrame <= job.end
  BY <1>1, <1>2 DEF FramesInOrder, TypeOK, Job
<1> HIDE DEF job
<1>4. /\ NextAfter(c) \in Int /\ nextFrame <= NextAfter(c) /\ NextAfter(c) <= job.end
  BY <1>1, <1>3 DEF NextAfter
<1>5. FrameAllDone(c) => curFrame < NextAfter(c)
  <2>1. FramesAfter(c)[c] = NextAfter(c)
    BY DEF FramesAfter, TypeOK
  <2> QED
    BY <1>1, <1>3, <1>4, <2>1 DEF FrameAllDone
<1>6. EndedCur(c) \in Int /\ job.begin <= EndedCur(c) /\ EndedCur(c) <= NextAfter(c)
  BY <1>3, <1>4, <1>5 DEF EndedCur
<1>7. EndedNext(c) = NextAfter(c)
  BY <1>4, <1>6 DEF EndedNext
<1> QED
  BY <1>3, <1>4, <1>5, <1>6, <1>7 DEF job

\* Every step keeps the four invariants about the front job.
LEMMA ServesJobStep ==
  ASSUME ServesFrontJob, [Next]_vars
  PROVE  ServesJob'
<1> USE DEF ServesFrontJob
<1>1. ASSUME UNCHANGED <<jobFiles, films, curFrame, nextFrame>>,
             \A r \in connections' : type'[r] = "RENDERER" /\ status'[r] # "IDLE" =>
               r \in connections /\ type[r] = "RENDERER" /\ status[r] # "IDLE" /\ frame'[r] = frame[r]
      PROVE  ServesJob'
  BY <1>1 DEF ServesJob, JobsHaveFrames, FilmsOfFrontJob, BusyInFrontJob, FramesInOrder, Busy
<1>2. ASSUME NEW c \in Clients, Accept(c) PROVE ServesJob'
  BY <1>1, <1>2 DEF Accept, TypeOK, filmVars
<1>3. ASSUME AcceptFails PROVE ServesJob'
  BY <1>1, <1>3 DEF AcceptFails, filmVars, nodeVars
<1>4. ASSUME NEW c \in Clients, LoseClient(c) PROVE ServesJob'
  BY <1>1, <1>4 DEF LoseClient, svrVars, filmVars, nodeVars
<1>5. ASSUME NEW c \in Clients, DisconnectRenderNode(c) PROVE ServesJob'
  BY <1>1, <1>5 DEF DisconnectRenderNode, filmVars, nodeVars
<1>6. ASSUME NEW c \in Clients, RenderScene(c) PROVE ServesJob'
  <2> DEFINE job == Head(toServer[c]).job
             tp == [type EXCEPT ![c] = "CONTROLLER"]
  <2>1. Received(c, "render_scene") /\ type' = tp /\ UNCHANGED connections
    BY <1>6 DEF RenderScene
  <2>2. job \in Job
    BY <2>1, ReceiveType, MessageFields
  <2>3. \A r \in connections : type'[r] = "RENDERER" => type[r] = "RENDERER"
    BY <2>1 DEF TypeOK
  <2>4. CASE job.begin < job.end /\ jobFiles = <<>>
             /\ DoRenderScene(<<job>>, curFrame, nextFrame, tp, frame, status, toClient)
    <3>1. \A r \in connections : type'[r] = "RENDERER" => status[r] = "IDLE"
      BY <2>3, <2>4 DEF BusyInFrontJob, Busy
    <3>2. <<job>> \in Seq(Job) /\ \A i \in DOMAIN <<job>> : <<job>>[i].begin < <<job>>[i].end
      BY <2>2, <2>4
    <3>3. connections' \subseteq Clients
      BY <2>1 DEF TypeOK
    <3>4. DoRenderScene(<<job>>, curFrame, nextFrame, type', frame, status, toClient)
      BY <2>1, <2>4
    <3> HIDE DEF job
    <3> QED
      BY <2>1, <3>1, <3>2, <3>3, <3>4, DoRenderSceneServes
  <2>5. CASE job.begin < job.end /\ jobFiles # <<>> /\ jobFiles' = Append(jobFiles, job)
             /\ UNCHANGED <<curFrame, nextFrame, films, frame, status, toClient>>
    <3>1. jobFiles' # <<>> /\ Head(jobFiles') = Head(jobFiles)
      BY <2>2, <2>5 DEF TypeOK
    <3>2. JobsHaveFrames'
      BY <2>2, <2>5, AppendToSeq DEF JobsHaveFrames, TypeOK
    <3> QED
      BY <2>1, <2>3, <2>5, <3>1, <3>2
         DEF ServesJob, FilmsOfFrontJob, BusyInFrontJob, FramesInOrder, Busy
  <2>6. CASE UNCHANGED <<jobFiles, curFrame, nextFrame, films, frame, status, toClient>>
    BY <1>1, <2>1, <2>3, <2>6
  <2> QED
    BY <1>6, <2>4, <2>5, <2>6 DEF RenderScene
<1>7. ASSUME NEW c \in Clients, TakeSample(c) PROVE ServesJob'
  <2>1. DOMAIN films' = DOMAIN films
    BY <1>7 DEF TakeSample, Sampled
  <2> QED
    BY <1>7, <2>1 DEF TakeSample, nodeVars, ServesJob, JobsHaveFrames, FilmsOfFrontJob,
       BusyInFrontJob, FramesInOrder, Busy
<1>8. ASSUME NEW c \in Clients, TakeWriteImage(c) PROVE ServesJob'
  BY <1>1, <1>8 DEF TakeWriteImage, nodeVars
<1>9. ASSUME NEW c \in Clients, GrantCropWindow(c) \/ EndCurrentFrame(c) PROVE ServesJob'
  <2>1. Received(c, "request_render_task") /\ UNCHANGED <<jobFiles, films, curFrame, nextFrame>>
        /\ UNCHANGED <<connections, type, frame>> /\ \A r \in Clients \ {c} : status'[r] = status[r]
    BY <1>9 DEF GrantCropWindow, EndCurrentFrame, svrVars, filmVars, TypeOK
  <2>2. c \in connections /\ status[c] # "IDLE" /\ type[c] = "RENDERER" /\ connections \subseteq Clients
    BY <2>1, RequestFacts DEF TypeOK
  <2> QED
    BY <1>1, <2>1, <2>2
<1>10. ASSUME NEW c \in Clients, StartNextFrame(c) \/ GoIdle(c) PROVE ServesJob'
  <2>1. /\ Received(c, "request_render_task") /\ UNCHANGED <<jobFiles, films, connections, type>>
        /\ curFrame' = EndedCur(c) /\ nextFrame' = EndedNext(c) /\ frame' = FramesAfter(c)
        /\ status'[c] # "IDLE" => MoreFrames(c)
        /\ \A r \in Clients \ {c} : status'[r] = status[r]
    BY <1>10 DEF StartNextFrame, GoIdle, LeavesFrame, TypeOK
  <2> DEFINE job == Head(jobFiles)
  <2>2. /\ job.begin \in Int /\ job.end \in Int
        /\ nextFrame' = NextAfter(c) /\ NextAfter(c) \in Int /\ curFrame' \in Int
        /\ nextFrame <= NextAfter(c) /\ NextAfter(c) <= job.end
        /\ job.begin <= curFrame' /\ curFrame' <= NextAfter(c)
    BY <2>1, EndFrameFacts
  <2>3. /\ jobFiles # <<>> /\ frame[c] \in job.begin .. (job.end - 1) /\ frame[c] <= nextFrame
        /\ frame[c] \in DOMAIN films
    BY <2>1, RequestFacts DEF FramesOf
  <2>4. DOMAIN films = job.begin .. (job.end - 1)
    BY <2>3 DEF FilmsOfFrontJob, FramesOf
  <2>5. nextFrame \in Int /\ \A r \in Clients : frame[r] \in Int
    BY DEF TypeOK
  <2>6. \A r \in Clients : frame'[r] = IF r = c THEN NextAfter(c) ELSE frame[r]
    BY <2>1 DEF FramesAfter, TypeOK
  <2>7. MoreFrames(c) => NextAfter(c) \in job.begin .. (job.end - 1)
    BY <2>2, <2>3, <2>5 DEF MoreFrames
  <2>8. ASSUME NEW r \in connections', type'[r] = "RENDERER", status'[r] # "IDLE"
        PROVE  frame'[r] \in job.begin .. (job.end - 1) /\ frame'[r] <= nextFrame'
    <3>1. r \in connections /\ r \in Clients /\ type[r] = "RENDERER"
      BY <2>1, <2>8 DEF TypeOK
    <3>2. CASE r = c
      BY <2>1, <2>2, <2>6, <2>7, <2>8, <3>1, <3>2
    <3>3. CASE r # c
      <4>1. status[r] # "IDLE" /\ frame'[r] = frame[r]
        BY <2>1, <2>6, <2>8, <3>1, <3>3
      <4>2. frame[r] \in job.begin .. (job.end - 1) /\ frame[r] <= nextFrame
        BY <3>1, <4>1 DEF BusyInFrontJob, FramesInOrder, Busy, FramesOf
      <4> QED
        BY <2>2, <2>5, <3>1, <4>1, <4>2
    <3> QED
      BY <3>2, <3>3
  <2>9. JobsHaveFrames' /\ FilmsOfFrontJob'
    BY <2>1 DEF JobsHaveFrames, FilmsOfFrontJob
  <2>10. BusyInFrontJob'
    BY <2>1, <2>3, <2>4, <2>8 DEF BusyInFrontJob, Busy, FramesOf
  <2>11. FramesInOrder'
    BY <2>1, <2>2, <2>8 DEF FramesInOrder, Busy
  <2> QED
    BY <2>9, <2>10, <2>11 DEF ServesJob
<1>11. ASSUME NEW c \in Clients, EndScene(c) PROVE ServesJob'
  <2> DEFINE st == [status EXCEPT ![c] = "IDLE"]
  <2>1. /\ Received(c, "request_render_task") /\ UNCHANGED <<connections, type>> /\ SceneEnds(c)
        /\ DoRenderScene(Tail(jobFiles), EndedCur(c), EndedNext(c), type, FramesAfter(c), st, EndSceneSent)
    BY <1>11 DEF EndScene, LeavesFrame
  <2>2. jobFiles # <<>> /\ jobFiles \in Seq(Job)
    BY <2>1, RequestFacts DEF TypeOK
  <2>3. Tail(jobFiles) \in Seq(Job)
        /\ \A i \in DOMAIN Tail(jobFiles) : Tail(jobFiles)[i].begin < Tail(jobFiles)[i].end
    BY <2>2, TailOfSeq DEF JobsHaveFrames
  <2>4. \A r \in connections : type'[r] = "RENDERER" => st[r] = "IDLE"
    BY <2>1 DEF SceneEnds, TypeOK
  <2>5. DoRenderScene(Tail(jobFiles), EndedCur(c), EndedNext(c), type', FramesAfter(c), st, EndSceneSent)
    BY <2>1
  <2>6. connections' \subseteq Clients
    BY <2>1 DEF TypeOK
  <2> HIDE DEF st
  <2> QED
    BY <2>1, <2>3, <2>4, <2>5, <2>6, DoRenderSceneServes
<1>12. ASSUME NEW c, RendererStep(c) \/ ScriptFails(c) \/ ControllerRead(c) PROVE ServesJob'
  <2>1. UNCHANGED <<jobFiles, films, curFrame, nextFrame, connections, type, status, frame>>
    BY <1>12, ScriptFailsFacts
       DEF RendererStep, DoRenderCrop, DoStartFrame, DoEndFrame, DoStartRenderScene,
           DoEndRenderScene, ControllerRead, clientUnchanged, svrVars, filmVars, nodeVars
  <2> QED
    BY <1>1, <2>1
<1>13. CASE UNCHANGED vars
  BY <1>1, <1>13 DEF vars, svrVars, filmVars, nodeVars
<1> QED
  BY <1>2, <1>3, <1>4, <1>5, <1>6, <1>7, <1>8, <1>9, <1>10, <1>11, <1>12, <1>13
     DEF Next, ServerStep, RequestRenderTask
-----------------------------------------------------------------------------
(***************************************************************************)
(* The theorems.                                                           *)
(***************************************************************************)

\* The farm starts without jobs, clients and messages.
LEMMA InitServes == Init => ServesFrontJob
<1> SUFFICES ASSUME Init PROVE ServesFrontJob
  OBVIOUS
<1>1. TypeOK
  <2>1. scene \in [Clients -> Scene] /\ type \in [Clients -> ClientType]
        /\ status \in [Clients -> RenderNodeStatus] /\ frame \in [Clients -> Int]
    BY DEF Init, NoScene, SceneOf, Scene, ClientType, RenderNodeStatus
  <2>2. films \in [DOMAIN films -> SUBSET Windows] /\ DOMAIN films \subseteq Int
        /\ disk \in [DOMAIN disk -> SUBSET Windows] /\ DOMAIN disk \subseteq Files \X Int
    BY DEF Init, NoFilms
  <2>3. toServer \in [Clients -> Seq(ToServer)] /\ toClient \in [Clients -> Seq(ToClient)]
    BY DEF Init
  <2>4. listening \in BOOLEAN /\ faults \in 0 .. MaxFaults /\ failures \subseteq Failure
    BY FaultsAssumption DEF Init
  <2>5. /\ connections \subseteq Clients /\ alive \subseteq Clients
        /\ cropWindows \in Seq(CropWindow) /\ curFrame \in Int /\ nextFrame \in Int
        /\ jobFiles \in Seq(Job) /\ finished \in Seq(Job)
    BY DEF Init
  <2> QED
    BY <2>1, <2>2, <2>3, <2>4, <2>5 DEF TypeOK
<1>2. OneTask /\ Roles
  BY DEF Init, OneTask, Roles, Clients
<1>3. JobsHaveFrames /\ FilmsOfFrontJob /\ BusyInFrontJob /\ FramesInOrder
  BY DEF Init, JobsHaveFrames, FilmsOfFrontJob, BusyInFrontJob, FramesInOrder, NoFilms
<1> QED
  BY <1>1, <1>2, <1>3 DEF ServesFrontJob

\* The server serves the front job only, one task at a time to each client, in
\* order of frames, whatever clients join, leave and fail: the inductive invariant.
THEOREM ServesFrontJobHolds == Spec => []ServesFrontJob
<1>1. ServesFrontJob /\ [Next]_vars => ServesFrontJob'
  BY TypeStep, OneTaskStep, RolesStep, ServesJobStep DEF ServesJob, ServesFrontJob
<1> QED
  BY InitServes, <1>1, PTL DEF Spec

\* Every variable keeps its type.
THEOREM TypeCorrect == Spec => []TypeOK
<1>1. ServesFrontJob => TypeOK
  BY DEF ServesFrontJob
<1> QED
  BY <1>1, ServesFrontJobHolds, PTL

\* A render client has one task at a time, and an idle one none.
THEOREM OneTaskHolds == Spec => []OneTask
<1>1. ServesFrontJob => OneTask
  BY DEF ServesFrontJob
<1> QED
  BY <1>1, ServesFrontJobHolds, PTL

\* The assertion of getNextCropWindow holds, and no windows are handed out of a
\* frame past the end of the job.
THEOREM FramesInOrderHolds == Spec => []FramesInOrder
<1>1. ServesFrontJob => FramesInOrder
  BY DEF ServesFrontJob
<1> QED
  BY <1>1, ServesFrontJobHolds, PTL

\* Every message of a client, and every end of a frame, finds its film in the
\* films of the front job: get_film never returns 0 nor indexes out of them.
THEOREM FilmForEveryTaskHolds == Spec => []FilmForEveryTask
<1>1. ServesFrontJob => FilmForEveryTask
  <2> SUFFICES ASSUME ServesFrontJob PROVE FilmForEveryTask
    OBVIOUS
  <2> USE DEF ServesFrontJob
  <2>0. Renderers \subseteq Clients
    BY DEF Clients
  <2>1. ASSUME NEW r \in Renderers, toServer[r] # <<>>
        PROVE  jobFiles # <<>> /\ frame[r] \in DOMAIN films
    BY <2>1 DEF OneTask, Roles, BusyInFrontJob, Busy
  <2>2. ASSUME NEW r \in Renderers, LeavesFrame(r), FrameAllDone(r)
        PROVE  curFrame \in DOMAIN films
    <3> DEFINE job == Head(jobFiles)
    <3>1. Received(r, "request_render_task") /\ r \in Clients
      BY <2>0, <2>2 DEF LeavesFrame
    <3>2. /\ job.begin \in Int /\ job.end \in Int /\ NextAfter(r) \in Int
          /\ curFrame < NextAfter(r) /\ NextAfter(r) <= job.end
      BY <2>2, <3>1, EndFrameFacts
    <3>3. jobFiles # <<>> /\ frame[r] \in DOMAIN films
      BY <3>1, RequestFacts
    <3>4. DOMAIN films = FramesOf(job)
      BY <3>3 DEF FilmsOfFrontJob
    <3>5. job.begin <= curFrame /\ curFrame \in Int
      BY <3>3 DEF FramesInOrder, TypeOK
    <3> HIDE DEF job
    <3> QED
      BY <3>2, <3>4, <3>5 DEF FramesOf
  <2> QED
    BY <2>1, <2>2 DEF FilmForEveryTask
<1> QED
  BY <1>1, ServesFrontJobHolds, PTL

-----------------------------------------------------------------------------
(***************************************************************************)
(* The windows kept in crop_windows_ are always in scan order, although    *)
(* frames are taken out of the list and jobs leave windows behind.         *)
(***************************************************************************)
Complete(w) == w.place >= WindowsPerFrame - 1

\* ScanOrder of a list of windows, and a list that ends with a complete scan.
Ordered(s) ==
  \A i \in DOMAIN s :
    IF i = 1 \/ Complete(s[i - 1])
    THEN s[i].place \in {0, NoArea}
    ELSE s[i] = [frame |-> s[i - 1].frame, place |-> s[i - 1].place + 1]
Closed(s) == s = <<>> \/ Complete(s[Len(s)])

\* ScanOrder says of crop_windows_ that it is ordered.
LEMMA ScanOrderIsOrdered == ScanOrder <=> Ordered(cropWindows)
BY DEF ScanOrder, Ordered, Complete

\* A window may follow the last one of a list.
Follows(s, w) ==
  IF Closed(s) THEN w.place \in {0, NoArea}
  ELSE w = [frame |-> s[Len(s)].frame, place |-> s[Len(s)].place + 1]

\* A window that follows the last one keeps the order.
LEMMA OrderedAppend ==
  ASSUME NEW s \in Seq(CropWindow), NEW w \in CropWindow, Ordered(s), Follows(s, w)
  PROVE  Ordered(Append(s, w))
<1> DEFINE t == Append(s, w)
<1>1. /\ t \in Seq(CropWindow) /\ Len(t) = Len(s) + 1 /\ t[Len(s) + 1] = w
      /\ \A i \in 1 .. Len(s) : t[i] = s[i]
  OBVIOUS
<1>2. s # <<>> <=> Len(s) # 0
  OBVIOUS
<1> HIDE DEF t
<1>3. ASSUME NEW i \in 1 .. Len(t)
      PROVE  IF i = 1 \/ Complete(t[i - 1])
             THEN t[i].place \in {0, NoArea}
             ELSE t[i] = [frame |-> t[i - 1].frame, place |-> t[i - 1].place + 1]
  <2>1. CASE i \in 1 .. Len(s)
    <3>1. t[i] = s[i] /\ (i # 1 => t[i - 1] = s[i - 1])
      BY <1>1, <2>1
    <3> QED
      BY <2>1, <3>1 DEF Ordered
  <2>2. CASE i = Len(s) + 1
    <3>1. t[i] = w
      BY <1>1, <2>2
    <3>2. CASE s = <<>>
      <4>1. i = 1
        BY <2>2, <3>2
      <4> QED
        BY <3>1, <3>2, <4>1 DEF Follows, Closed
    <3>3. CASE s # <<>>
      <4>1. i # 1 /\ i - 1 = Len(s) /\ t[i - 1] = s[Len(s)]
        BY <1>1, <1>2, <2>2, <3>3
      <4> QED
        BY <3>1, <3>3, <4>1 DEF Follows, Closed
    <3> QED
      BY <3>2, <3>3
  <2> QED
    BY <1>1, <2>1, <2>2
<1>4. DOMAIN t = 1 .. Len(t)
  BY <1>1
<1>5. Ordered(t)
  BY <1>3, <1>4 DEF Ordered
<1> QED
  BY <1>5 DEF t

\* WithoutFrame goes through the list from its front.
LEMMA WithoutFrameKept ==
  ASSUME NEW S, NEW s \in Seq(S), NEW f
  PROVE  \E k : /\ WithoutFrame(s, f) = k[Len(s)]
                /\ \A i \in 0 .. Len(s) :
                     k[i] = IF i = 0 THEN <<>>
                            ELSE IF s[i].frame = f THEN k[i - 1] ELSE Append(k[i - 1], s[i])
<1> DEFINE kept == CHOOSE k : Kept(k, Len(s), s, f)
<1>0. Len(s) \in 0 .. Len(s)
  OBVIOUS
<1>1. \E k \in [0 .. Len(s) -> Seq(S)] : Kept(k, Len(s), s, f)
  BY KeptExists, <1>0
<1>2. Kept(kept, Len(s), s, f)
  BY <1>1
<1>3. WithoutFrame(s, f) = kept[Len(s)]
  BY Zenon DEF WithoutFrame, Kept
<1> HIDE DEF kept
<1>4. \A i \in 0 .. Len(s) :
        kept[i] = IF i = 0 THEN <<>>
                  ELSE IF s[i].frame = f THEN kept[i - 1] ELSE Append(kept[i - 1], s[i])
  BY <1>2 DEF Kept
<1> QED
  BY <1>3, <1>4

\* Without the windows of one frame a list of complete scans still is one.
LEMMA WithoutFrameOrdered ==
  ASSUME NEW s \in Seq(CropWindow), Ordered(s), Closed(s), NEW f
  PROVE  Ordered(WithoutFrame(s, f)) /\ Closed(WithoutFrame(s, f))
<1>1. PICK k : /\ WithoutFrame(s, f) = k[Len(s)]
               /\ \A i \in 0 .. Len(s) :
                    k[i] = IF i = 0 THEN <<>>
                           ELSE IF s[i].frame = f THEN k[i - 1] ELSE Append(k[i - 1], s[i])
  BY WithoutFrameKept
<1> DEFINE Fine(n) ==
             /\ k[n] \in Seq(CropWindow) /\ Ordered(k[n])
             /\ n = 0 \/ s[n].frame = f => Closed(k[n])
             /\ n # 0 /\ s[n].frame # f => k[n] # <<>> /\ k[n][Len(k[n])] = s[n]
           Good == {n \in Nat : n <= Len(s) => Fine(n)}
<1>2. 0 \in Good
  <2>1. 0 \in 0 .. Len(s)
    OBVIOUS
  <2>2. k[0] = <<>>
    BY <1>1, <2>1
  <2>3. <<>> \in Seq(CropWindow) /\ Ordered(<<>>) /\ Closed(<<>>)
    BY DEF Ordered, Closed
  <2> QED
    BY <2>2, <2>3
<1>3. ASSUME NEW n \in Good PROVE n + 1 \in Good
  <2> SUFFICES ASSUME n + 1 <= Len(s) PROVE Fine(n + 1)
    OBVIOUS
  <2>1. n + 1 \in 0 .. Len(s) /\ n + 1 # 0 /\ (n + 1) - 1 = n /\ n \in Nat /\ n <= Len(s)
    OBVIOUS
  <2>2. k[n + 1] = IF s[n + 1].frame = f THEN k[n] ELSE Append(k[n], s[n + 1])
    BY <1>1, <2>1
  <2>3. Fine(n)
    BY <2>1
  <2>4. s[n + 1] \in CropWindow /\ n + 1 \in DOMAIN s
    BY <2>1
  <2>5. n # 0 /\ ~Complete(s[n]) => s[n + 1] = [frame |-> s[n].frame, place |-> s[n].place + 1]
    BY <2>1, <2>4 DEF Ordered
  <2>6. n = 0 \/ Complete(s[n]) => s[n + 1].place \in {0, NoArea}
    BY <2>1, <2>4 DEF Ordered
  <2>7. n # 0 /\ ~Complete(s[n]) => s[n + 1].frame = s[n].frame
    BY <2>5
  <2> HIDE DEF Fine
  <2>8. CASE s[n + 1].frame = f
    <3>1. k[n + 1] = k[n]
      BY <2>2, <2>8
    <3>2. Closed(k[n])
      BY <2>3, <2>7, <2>8 DEF Fine, Closed
    <3> QED
      BY <2>1, <2>3, <2>8, <3>1, <3>2 DEF Fine
  <2>9. CASE s[n + 1].frame # f
    <3>1. k[n + 1] = Append(k[n], s[n + 1]) /\ k[n] \in Seq(CropWindow) /\ Ordered(k[n])
      BY <2>2, <2>3, <2>9 DEF Fine
    <3>2. Follows(k[n], s[n + 1])
      <4>1. CASE n = 0 \/ s[n].frame = f
        BY <2>3, <2>6, <2>7, <2>9, <4>1 DEF Fine, Follows
      <4>2. CASE ~(n = 0 \/ s[n].frame = f)
        BY <2>3, <2>5, <2>6, <4>2 DEF Fine, Follows, Closed
      <4> QED
        BY <4>1, <4>2
    <3>3. k[n + 1] \in Seq(CropWindow) /\ Ordered(k[n + 1])
      BY <2>4, <3>1, <3>2, OrderedAppend
    <3>4. k[n + 1] # <<>> /\ k[n + 1][Len(k[n + 1])] = s[n + 1]
      BY <2>4, <3>1
    <3> QED
      BY <2>1, <2>9, <3>3, <3>4 DEF Fine
  <2> QED
    BY <2>8, <2>9
<1>4. Good = Nat
  <2> HIDE DEF Good
  <2>1. Good \in SUBSET Nat
    BY DEF Good
  <2> QED
    BY <1>2, <1>3, <2>1, SetInduction
<1>5. Fine(Len(s))
  <2>1. Len(s) \in Good
    BY <1>4
  <2> QED
    BY <2>1
<1> HIDE DEF Fine
<1>6. Closed(k[Len(s)])
  <2>1. CASE s = <<>>
    BY <1>5, <2>1 DEF Fine
  <2>2. CASE s # <<>>
    BY <1>5, <2>2 DEF Fine, Closed
  <2> QED
    BY <2>1, <2>2
<1> QED
  BY <1>1, <1>5, <1>6 DEF Fine

-----------------------------------------------------------------------------
(***************************************************************************)
(* A scan that is not over is of next_frame_, and its job is at the front. *)
(***************************************************************************)
ScanInv ==
  /\ Ordered(cropWindows)
  /\ ~Closed(cropWindows) => jobFiles # <<>> /\ Back.frame = nextFrame

\* A closed scan is over.
LEMMA ClosedIsOver ==
  /\ Closed(cropWindows) <=> cropWindows = <<>> \/ ScanOver
  /\ UNCHANGED cropWindows => (Closed(cropWindows)' <=> Closed(cropWindows)) /\ Back' = Back
BY DEF Closed, ScanOver, Back, Complete

\* The window granted to a node follows the last one.
LEMMA GrantFollows ==
  ASSUME ServesFrontJob, ScanInv, NEW c \in Clients
  PROVE  Follows(cropWindows, [frame |-> nextFrame, place |-> NextPlace(c)])
<1>1. CASE Closed(cropWindows)
  <2>1. NextPlace(c) \in {0, NoArea}
    BY <1>1, ClosedIsOver DEF NextPlace
  <2> QED
    BY <1>1, <2>1 DEF Follows
<1>2. CASE ~Closed(cropWindows)
  <2>1. NextPlace(c) = Back.place + 1 /\ Back.frame = nextFrame
    BY <1>2, ClosedIsOver DEF NextPlace, ScanInv
  <2> QED
    BY <1>2, <2>1 DEF Follows, Back
<1> QED
  BY <1>1, <1>2

\* When a frame ends the scan is over, and the windows left are complete scans.
LEMMA EndFrameScan ==
  ASSUME ServesFrontJob, ScanInv, NEW c \in Clients, LeavesFrame(c), EndFrameStep(c)
  PROVE  Ordered(cropWindows)' /\ Closed(cropWindows)'
<1>1. Ordered(cropWindows) /\ Closed(cropWindows) /\ cropWindows \in Seq(CropWindow)
  BY ClosedIsOver DEF LeavesFrame, Grants, ScanInv, ServesFrontJob, TypeOK
<1>2. CASE FrameAllDone(c)
  <2>1. cropWindows' = WithoutFrame(cropWindows, curFrame)
    BY <1>2 DEF EndFrameStep
  <2> QED
    BY <1>1, <2>1, WithoutFrameOrdered
<1>3. CASE ~FrameAllDone(c)
  BY <1>1, <1>3 DEF EndFrameStep
<1> QED
  BY <1>2, <1>3

\* Every step keeps ScanInv.
LEMMA ScanStep ==
  ASSUME ServesFrontJob, ScanInv, [Next]_vars
  PROVE  ScanInv'
<1>1. ASSUME UNCHANGED <<cropWindows, nextFrame>>, jobFiles # <<>> => jobFiles' # <<>> PROVE ScanInv'
  BY <1>1, ClosedIsOver DEF ScanInv
<1>2. ASSUME Ordered(cropWindows)', Closed(cropWindows)' PROVE ScanInv'
  BY <1>2 DEF ScanInv
<1>3. ASSUME NEW c \in Clients, Accept(c) \/ LoseClient(c) \/ DisconnectRenderNode(c) PROVE ScanInv'
  BY <1>1, <1>3 DEF Accept, LoseClient, DisconnectRenderNode, svrVars
<1>4. ASSUME AcceptFails PROVE ScanInv'
  BY <1>1, <1>4 DEF AcceptFails
<1>5. ASSUME NEW c \in Clients, RenderScene(c) PROVE ScanInv'
  <2> DEFINE job == Head(toServer[c]).job
  <2>1. UNCHANGED cropWindows
    BY <1>5 DEF RenderScene
  <2>2. CASE jobFiles = <<>>
    <3>1. Ordered(cropWindows) /\ Closed(cropWindows)
      BY <2>2 DEF ScanInv
    <3> QED
      BY <1>2, <2>1, <3>1
  <2>3. CASE jobFiles # <<>>
    <3>1. UNCHANGED nextFrame /\ (jobFiles' = Append(jobFiles, job) \/ jobFiles' = jobFiles)
      BY <1>5, <2>3 DEF RenderScene
    <3>2. jobFiles \in Seq(Job)
      BY DEF ServesFrontJob, TypeOK
    <3>3. jobFiles' # <<>>
      BY <2>3, <3>1, <3>2
    <3> QED
      BY <1>1, <2>1, <3>1, <3>3
  <2> QED
    BY <2>2, <2>3
<1>6. ASSUME NEW c \in Clients, TakeSample(c) \/ TakeWriteImage(c) \/ EndCurrentFrame(c) PROVE ScanInv'
  BY <1>1, <1>6 DEF TakeSample, TakeWriteImage, EndCurrentFrame, svrVars
<1>7. ASSUME NEW c \in Clients, GrantCropWindow(c) PROVE ScanInv'
  <2> DEFINE w == [frame |-> nextFrame, place |-> NextPlace(c)]
  <2>1. cropWindows' = Append(cropWindows, w) /\ UNCHANGED <<jobFiles, nextFrame>>
        /\ Received(c, "request_render_task")
    BY <1>7 DEF GrantCropWindow
  <2>2. w \in CropWindow /\ cropWindows \in Seq(CropWindow)
    BY NextPlaceType DEF ServesFrontJob, TypeOK, CropWindow
  <2>3. Follows(cropWindows, w)
    BY GrantFollows
  <2>4. w.frame = nextFrame
    OBVIOUS
  <2> HIDE DEF w
  <2>5. Ordered(cropWindows)'
    BY <2>1, <2>2, <2>3, OrderedAppend DEF ScanInv
  <2>6. Back'.frame = nextFrame' /\ jobFiles' # <<>>
    <3>1. Back' = w
      BY <2>1, <2>2 DEF Back
    <3>2. jobFiles # <<>>
      BY <2>1, RequestFacts
    <3> QED
      BY <2>1, <2>4, <3>1, <3>2
  <2> QED
    BY <2>5, <2>6 DEF ScanInv
<1>8. ASSUME NEW c \in Clients, StartNextFrame(c) \/ GoIdle(c) \/ EndScene(c) PROVE ScanInv'
  <2>1. LeavesFrame(c) /\ EndFrameStep(c)
    BY <1>8 DEF StartNextFrame, GoIdle, EndScene
  <2> QED
    BY <1>2, <2>1, EndFrameScan
<1>9. ASSUME NEW c, RendererStep(c) \/ ScriptFails(c) \/ ControllerRead(c) PROVE ScanInv'
  BY <1>1, <1>9, ScriptFailsFacts DEF RendererStep, DoRenderCrop, DoStartFrame, DoEndFrame, DoStartRenderScene,
     DoEndRenderScene, ControllerRead, clientUnchanged, svrVars
<1>10. CASE UNCHANGED vars
  BY <1>1, <1>10 DEF vars, svrVars
<1> QED
  BY <1>3, <1>4, <1>5, <1>6, <1>7, <1>8, <1>9, <1>10 DEF Next, ServerStep, RequestRenderTask

\* A scan that is not over is always of next_frame_.
LEMMA ScanInvHolds == Spec => []ScanInv
<1>1. Init => ScanInv
  BY DEF Init, ScanInv, Ordered, Closed
<1>2. ServesFrontJob /\ ScanInv /\ [Next]_vars => ScanInv'
  BY ScanStep
<1> QED
  BY <1>1, <1>2, ServesFrontJobHolds, PTL DEF Spec

\* The windows kept in crop_windows_ are in scan order, for every number of clients, windows,
\* jobs and faults.
THEOREM ScanOrderHolds == Spec => []ScanOrder
<1>1. ScanInv => ScanOrder
  BY ScanOrderIsOrdered DEF ScanInv
<1> QED
  BY <1>1, ScanInvHolds, PTL

-----------------------------------------------------------------------------
(***************************************************************************)
(* The scene a client has loaded, which it cleans up before it starts the  *)
(* next.                                                                   *)
(***************************************************************************)

(***************************************************************************)
(* Loaded is for one busy renderer with received messages ins and sent     *)
(* messages outs, that has loaded scene sc and is at frame f of this file; *)
(* all that is known of sc is its frame when the client's startup of the   *)
(* file failed.                                                            *)
(***************************************************************************)
Shows(sc, f, file, failed) == sc.frame = f /\ (failed \/ sc = SceneOf(file, f))
Loaded(ins, outs, sc, f, file, failed) ==
  /\ ins # <<>> => outs = <<>> /\ Shows(sc, f, file, failed)
  /\ \A i \in DOMAIN ins : ins[i].kind = "add_sample" => Shows(ins[i].scene, f, file, failed)
  /\ outs # <<>> =>
       \/ /\ outs[Len(outs)] = StartFrame(f)
          /\ IF Len(outs) = 1
             THEN failed \/ (sc.script = file /\ sc.file = file)
             ELSE outs[Len(outs) - 1] = StartRenderScene(file)
       \/ /\ Len(outs) = 1 /\ outs[1].kind \in {"render_crop", "end_frame"}
          /\ Shows(sc, f, file, failed)

FrontFile == Head(jobFiles).file
StartFailed(r) == Failed(r, "startup", FrontFile)
LoadedAt(r) ==
  Loaded(toServer[r], toClient[r], scene[r], frame[r], FrontFile, StartFailed(r))
ScenesLoaded == \A r \in Renderers : Busy(r) => LoadedAt(r)

\* Before anything is under way to the client.
LEMMA LoadedQuiet ==
  ASSUME NEW sc, NEW f, NEW file, NEW failed
  PROVE  Loaded(<<>>, <<>>, sc, f, file, failed)
BY DEF Loaded

\* do_render_scene loads the scene in the nodes that it starts.
LEMMA LoadedStart ==
  ASSUME NEW outs \in Seq(ToClient), NEW sc, NEW f \in Int, NEW file \in Files, NEW failed
  PROVE  Loaded(<<>>, outs \o <<StartRenderScene(file), StartFrame(f)>>, sc, f, file, failed)
<1> DEFINE a == StartRenderScene(file)
           b == StartFrame(f)
           t == outs \o <<a, b>>
<1>1. a \in ToClient /\ b \in ToClient
  BY MessageTypes
<1> HIDE DEF a, b
<1>2. t \in Seq(ToClient) /\ Len(t) = Len(outs) + 2 /\ t[Len(outs) + 2] = b /\ t[Len(outs) + 1] = a
  BY <1>1
<1>3. t[Len(t)] = b /\ Len(t) # 1 /\ t[Len(t) - 1] = a
  BY <1>2
<1> HIDE DEF t
<1>4. Loaded(<<>>, t, sc, f, file, failed)
  BY <1>3 DEF Loaded, a, b
<1> QED
  BY <1>4 DEF t, a, b

\* The server reads a message and sends no other.
LEMMA LoadedRead ==
  ASSUME NEW ins \in Seq(ToServer), ins # <<>>, NEW outs, NEW sc, NEW f, NEW file, NEW failed,
         Loaded(ins, outs, sc, f, file, failed)
  PROVE  Loaded(Tail(ins), outs, sc, f, file, failed)
<1>1. \A i \in DOMAIN Tail(ins) : Tail(ins)[i] = ins[i + 1] /\ i + 1 \in DOMAIN ins
  BY TailOfSeq
<1> QED
  BY <1>1 DEF Loaded

\* The server reads a request and sends a window, the end of the frame or the next frame.
LEMMA LoadedSend ==
  ASSUME NEW ins \in Seq(ToServer), ins # <<>>, NEW sc, NEW f, NEW file, NEW failed, NEW outs,
         Loaded(ins, outs, sc, f, file, failed)
  PROVE  /\ \A m \in ToClient : m.kind \in {"render_crop", "end_frame"} =>
              Loaded(<<>>, Append(outs, m), sc, f, file, failed)
         /\ \A g \in Int : Loaded(<<>>, Append(outs, StartFrame(g)), sc, g, file, failed)
<1>1. outs = <<>> /\ Shows(sc, f, file, failed)
  BY DEF Loaded
<1>2. \A m : Append(outs, m) = <<m>> /\ Len(<<m>>) = 1 /\ <<m>>[1] = m
  BY <1>1
<1>3. failed \/ (sc.script = file /\ sc.file = file)
  BY <1>1 DEF Shows, SceneOf
<1> QED
  BY <1>1, <1>2, <1>3 DEF Loaded

\* A busy client reads that it has to start or to clean up a scene.
LEMMA LoadedDeliver ==
  ASSUME NEW outs \in Seq(ToClient), outs # <<>>, NEW ins, NEW sc, NEW f, NEW file, NEW failed,
         Loaded(ins, outs, sc, f, file, failed),
         Head(outs).kind \in {"start_render_scene", "end_render_scene"}, NEW sc2, NEW failed2,
         Head(outs) = StartRenderScene(file) => failed2 \/ (sc2.script = file /\ sc2.file = file)
  PROVE  Loaded(ins, Tail(outs), sc2, f, file, failed2)
<1> DEFINE n == Len(outs)
           t == Tail(outs)
<1>1. /\ t \in Seq(ToClient) /\ Len(t) = n - 1 /\ n \in Nat /\ n # 0 /\ Head(outs) = outs[1]
      /\ \A i \in 1 .. Len(t) : t[i] = outs[i + 1]
      /\ t # <<>> <=> n # 1
  <2>1. /\ t \in Seq(ToClient) /\ Len(t) = n - 1 /\ Head(outs) = outs[1] /\ n \in Nat /\ n # 0
        /\ \A i \in DOMAIN t : t[i] = outs[i + 1]
    BY TailOfSeq
  <2>2. \A s \in Seq(ToClient) : DOMAIN s = 1 .. Len(s) /\ (s # <<>> <=> Len(s) # 0)
    OBVIOUS
  <2> HIDE DEF t, n
  <2>3. DOMAIN t = 1 .. Len(t) /\ (t # <<>> <=> Len(t) # 0)
    BY <2>1, <2>2
  <2> QED
    BY <2>1, <2>3
<1>2. ins = <<>>
  BY DEF Loaded
<1>3. outs[n] = StartFrame(f) /\ n # 1 /\ outs[n - 1] = StartRenderScene(file)
  BY <1>1 DEF Loaded, StartFrame
<1>4. Len(t) # 0 /\ t[Len(t)] = StartFrame(f)
  BY <1>1, <1>3
<1>5. Len(t) # 1 => t[Len(t) - 1] = StartRenderScene(file)
  <2>1. Len(t) # 1 => Len(t) - 1 \in 1 .. Len(t) /\ (Len(t) - 1) + 1 = n - 1
    BY <1>1, <1>4
  <2> QED
    BY <1>1, <1>3, <2>1
<1>6. Len(t) = 1 => Head(outs) = StartRenderScene(file)
  BY <1>1, <1>3
<1> HIDE DEF t, n
<1>7. Len(t) = 1 => failed2 \/ (sc2.script = file /\ sc2.file = file)
  BY <1>6
<1>8. Loaded(ins, t, sc2, f, file, failed2)
  BY <1>2, <1>4, <1>5, <1>7 DEF Loaded
<1> QED
  BY <1>8 DEF t

\* A busy client does its task: OneTask says that nothing else is under way.
LEMMA LoadedTask ==
  ASSUME NEW outs \in Seq(ToClient), Len(outs) = 1, NEW sc, NEW f, NEW file, NEW failed,
         Loaded(<<>>, outs, sc, f, file, failed), outs[1].kind \in {"render_crop", "end_frame"}
  PROVE  Shows(sc, f, file, failed)
<1>1. outs # <<>>
  <2>1. Len(outs) # 0
    OBVIOUS
  <2>2. \A s \in Seq(ToClient) : Len(s) # 0 => s # <<>>
    OBVIOUS
  <2> QED
    BY <2>1, <2>2, Zenon
<1>2. outs[1] # StartFrame(f)
  BY DEF StartFrame
<1> QED
  BY <1>1, <1>2 DEF Loaded

\* It starts a frame of the scene that it has loaded.
LEMMA LoadedFrame ==
  ASSUME NEW outs \in Seq(ToClient), Len(outs) = 1, NEW sc \in Scene, NEW f, NEW file, NEW failed,
         Loaded(<<>>, outs, sc, f, file, failed), outs[1].kind = "start_frame"
  PROVE  /\ Shows([sc EXCEPT !.frame = outs[1].frame], f, file, failed)
         /\ failed \/ (sc.script = file /\ sc.file = file)
<1>1. sc = [script |-> sc.script, file |-> sc.file, frame |-> sc.frame]
  BY DEF Scene
<1>2. outs # <<>>
  <2>1. \A s \in Seq(ToClient) : Len(s) # 0 => s # <<>>
    OBVIOUS
  <2>2. Len(outs) # 0
    OBVIOUS
  <2> QED
    BY <2>1, <2>2, Zenon
<1>3. outs[1] = StartFrame(f) /\ (failed \/ (sc.script = file /\ sc.file = file))
  BY <1>2 DEF Loaded
<1>4. outs[1].frame = f
  BY <1>3 DEF StartFrame
<1>5. [sc EXCEPT !.frame = f] = [script |-> sc.script, file |-> sc.file, frame |-> f]
  BY <1>1
<1> QED
  BY <1>3, <1>4, <1>5 DEF Shows, SceneOf

\* What it answers is about the frame that it has loaded.
LEMMA LoadedAnswer ==
  ASSUME NEW sc, NEW f, NEW file, NEW failed, Shows(sc, f, file, failed)
  PROVE  /\ Loaded(<<>> \o <<RequestTask>>, <<>>, sc, f, file, failed)
         /\ \A p : Loaded(<<>> \o <<AddSample(sc, p), WriteImage, RequestTask>>, <<>>,
                         sc, f, file, failed)
BY DEF Loaded, RequestTask, WriteImage, AddSample

-----------------------------------------------------------------------------
\* do_render_scene, when no renderer is busy.
LEMMA DoRenderSceneLoaded ==
  ASSUME TypeOK, NEW q \in Seq(Job), NEW cur, NEW nxt, NEW tp, NEW fr, NEW st,
         NEW out \in [Clients -> Seq(ToClient)],
         DoRenderScene(q, cur, nxt, tp, fr, st, out), UNCHANGED <<connections, scene>>,
         \A r \in Renderers : r \in connections => st[r] = "IDLE" /\ toServer'[r] = <<>>
  PROVE  ScenesLoaded'
<1> DEFINE job == Head(q)
           started == q # <<>> /\ job.file \notin BrokenStartup
           woken == {r \in connections : started /\ tp[r] # "CONTROLLER" /\ st[r] = "IDLE"}
           sent == <<StartRenderScene(job.file), StartFrame(job.begin)>>
<1>1. /\ jobFiles' = q
      /\ frame' = [r \in Clients |-> IF r \in woken THEN job.begin ELSE fr[r]]
      /\ status' = [r \in Clients |-> IF r \in woken THEN "START_FRAME" ELSE st[r]]
      /\ toClient' = [r \in Clients |-> IF r \in woken THEN out[r] \o sent ELSE out[r]]
  BY DEF DoRenderScene
<1> SUFFICES ASSUME NEW r \in Renderers, Busy(r)' PROVE LoadedAt(r)'
  BY DEF ScenesLoaded
<1>2. r \in Clients /\ r \in connections /\ status'[r] # "IDLE"
  BY DEF Clients, Busy
<1>3. r \in woken
  BY <1>1, <1>2
<1>4. q # <<>> /\ job \in Job
  BY <1>3
<1>5. job.begin \in Int /\ job.file \in Files
  BY <1>4 DEF Job
<1>6. toServer'[r] = <<>> /\ frame'[r] = job.begin /\ toClient'[r] = out[r] \o sent
      /\ out[r] \in Seq(ToClient) /\ FrontFile' = job.file
  BY <1>1, <1>2, <1>3 DEF FrontFile
<1>7. Loaded(<<>>, out[r] \o sent, scene[r], job.begin, job.file, StartFailed(r)')
  BY <1>5, <1>6, LoadedStart
<1> QED
  BY <1>6, <1>7 DEF LoadedAt

\* A step that concerns one client leaves what the others have loaded.
LEMMA LoadedOthers ==
  ASSUME ScenesLoaded, NEW c, UNCHANGED FrontFile,
         \A r \in Renderers \ {c} : StartFailed(r)' = StartFailed(r),
         \A r \in Renderers \ {c} :
           /\ toServer'[r] = toServer[r] /\ toClient'[r] = toClient[r] /\ scene'[r] = scene[r]
           /\ Busy(r)' => Busy(r) /\ frame'[r] = frame[r],
         c \in Renderers /\ Busy(c)' => LoadedAt(c)'
  PROVE  ScenesLoaded'
BY DEF ScenesLoaded, LoadedAt

\* Every step keeps ScenesLoaded.
LEMMA LoadedStep ==
  ASSUME ServesFrontJob, ScenesLoaded, [Next]_vars
  PROVE  ScenesLoaded'
<1> USE DEF ServesFrontJob
<1>0. Renderers \subseteq Clients /\ \A r \in Renderers : r \notin Controllers
  BY ClientsAssumption DEF Clients
<1>1. ASSUME NEW c \in Clients, Accept(c) PROVE ScenesLoaded'
  <2>1. ~Busy(c)'
    BY <1>1 DEF Accept, Busy, TypeOK
  <2>2. \A r \in Renderers \ {c} :
           /\ toServer'[r] = toServer[r] /\ toClient'[r] = toClient[r] /\ scene'[r] = scene[r]
           /\ Busy(r)' => Busy(r) /\ frame'[r] = frame[r]
    BY <1>0, <1>1 DEF Accept, Busy, TypeOK
  <2> QED
    BY <1>1, <2>1, <2>2, LoadedOthers DEF Accept, FrontFile, StartFailed, Failed, history
<1>2. ASSUME AcceptFails PROVE ScenesLoaded'
  BY <1>2 DEF AcceptFails, nodeVars, ScenesLoaded, LoadedAt, Busy, FrontFile, StartFailed, Failed
<1>3. ASSUME NEW c \in Clients, LoseClient(c) PROVE ScenesLoaded'
  <2>1. UNCHANGED <<toServer, scene, connections, status, frame, jobFiles, failures>>
        /\ toClient' = [toClient EXCEPT ![c] = <<>>]
    BY <1>3 DEF LoseClient, svrVars, nodeVars
  <2>2. c \in Renderers /\ Busy(c) => LoadedAt(c)'
    BY <2>1 DEF ScenesLoaded, LoadedAt, Loaded, TypeOK, FrontFile, StartFailed, Failed
  <2> QED
    BY <1>0, <2>1, <2>2, LoadedOthers DEF TypeOK, FrontFile, Busy, StartFailed, Failed
<1>4. ASSUME NEW c \in Clients, DisconnectRenderNode(c) PROVE ScenesLoaded'
  <2>1. ~Busy(c)' /\ UNCHANGED <<scene, status, frame, jobFiles, failures>>
        /\ connections' = connections \ {c}
        /\ toClient' = [toClient EXCEPT ![c] = <<>>] /\ toServer' = [toServer EXCEPT ![c] = <<>>]
    BY <1>4 DEF DisconnectRenderNode, nodeVars, Busy, history
  <2> QED
    BY <1>0, <2>1, LoadedOthers DEF TypeOK, FrontFile, Busy, StartFailed, Failed
<1>5. ASSUME NEW c \in Clients, RenderScene(c) PROVE ScenesLoaded'
  <2> DEFINE job == Head(toServer[c]).job
             tp == [type EXCEPT ![c] = "CONTROLLER"]
  <2>1. Received(c, "render_scene") /\ toServer' = AfterReceive(c)
        /\ UNCHANGED <<connections, scene, failures>>
    BY <1>5 DEF RenderScene, history
  <2>2. job \in Job /\ toServer[c] # <<>>
    BY <2>1, ReceiveType, MessageFields DEF Received
  <2>3. c \notin Renderers
    <3>1. 1 \in DOMAIN toServer[c] /\ toServer[c][1].kind = "render_scene"
      BY <2>1 DEF Received, TypeOK
    <3> QED
      BY <3>1 DEF Roles
  <2>4. \A r \in Renderers : toServer'[r] = toServer[r]
    BY <1>0, <2>1, <2>3 DEF AfterReceive, TypeOK
  <2>5. CASE jobFiles = <<>> /\ DoRenderScene(<<job>>, curFrame, nextFrame, tp, frame, status, toClient)
    <3>1. \A r \in Renderers : r \in connections => status[r] = "IDLE"
      BY <2>5 DEF BusyInFrontJob, Busy, Roles
    <3>2. \A r \in Renderers : r \in connections => toServer'[r] = <<>>
      BY <2>4, <3>1 DEF OneTask
    <3>3. <<job>> \in Seq(Job) /\ toClient \in [Clients -> Seq(ToClient)]
      BY <2>2 DEF TypeOK
    <3> HIDE DEF job, tp
    <3> QED
      BY <2>1, <2>5, <3>1, <3>2, <3>3, DoRenderSceneLoaded
  <2>6. CASE UNCHANGED <<frame, status, toClient>> /\ jobFiles # <<>> /\ jobFiles' = Append(jobFiles, job)
    <3>1. FrontFile' = FrontFile
      BY <2>2, <2>6 DEF FrontFile, TypeOK
    <3> QED
      BY <2>1, <2>4, <2>6, <3>1 DEF ScenesLoaded, LoadedAt, Busy, StartFailed, Failed
  <2>7. CASE UNCHANGED <<frame, status, toClient, jobFiles>>
    BY <2>1, <2>4, <2>7 DEF ScenesLoaded, LoadedAt, Busy, FrontFile, StartFailed, Failed
  <2> QED
    BY <1>5, <2>5, <2>6, <2>7 DEF RenderScene
<1>6. ASSUME NEW c \in Clients, TakeSample(c) \/ TakeWriteImage(c) PROVE ScenesLoaded'
  <2>1. /\ toServer[c] # <<>> /\ toServer' = AfterReceive(c)
        /\ UNCHANGED <<connections, toClient, status, frame, scene, jobFiles, failures>>
    BY <1>6 DEF TakeSample, TakeWriteImage, Received, nodeVars, history
  <2>2. c \in Renderers /\ Busy(c) => LoadedAt(c)'
    <3> SUFFICES ASSUME c \in Renderers, Busy(c) PROVE LoadedAt(c)'
      OBVIOUS
    <3>1. Loaded(toServer[c], toClient[c], scene[c], frame[c], FrontFile, StartFailed(c)) /\ toServer[c] \in Seq(ToServer)
      BY DEF ScenesLoaded, LoadedAt, TypeOK
    <3>2. Loaded(Tail(toServer[c]), toClient[c], scene[c], frame[c], FrontFile, StartFailed(c))
      BY <2>1, <3>1, LoadedRead
    <3>3. toServer'[c] = Tail(toServer[c])
      BY <2>1 DEF AfterReceive, TypeOK
    <3> QED
      BY <2>1, <3>2, <3>3 DEF LoadedAt, FrontFile, StartFailed, Failed
  <2> QED
    BY <1>0, <2>1, <2>2, LoadedOthers
       DEF AfterReceive, TypeOK, FrontFile, Busy, StartFailed, Failed
<1>7. ASSUME NEW c \in Clients, NEW m \in ToClient, NEW f \in Int,
             Received(c, "request_render_task"), toServer' = AfterReceive(c), toClient' = Send(c, m),
             (m.kind \in {"render_crop", "end_frame"} /\ f = frame[c]) \/ m = StartFrame(f),
             frame' = [frame EXCEPT ![c] = f], UNCHANGED <<connections, scene, jobFiles, failures>>,
             \A r \in Clients \ {c} : status'[r] = status[r]
      PROVE  ScenesLoaded'
  <2>1. c \in Renderers /\ Busy(c) /\ toServer[c] # <<>> /\ AfterReceive(c)[c] = <<>>
    BY <1>7, RequestFacts DEF Busy, Received
  <2>2. Loaded(toServer[c], toClient[c], scene[c], frame[c], FrontFile, StartFailed(c)) /\ toServer[c] \in Seq(ToServer)
    BY <2>1 DEF ScenesLoaded, LoadedAt, TypeOK
  <2>3. Loaded(<<>>, Append(toClient[c], m), scene[c], f, FrontFile, StartFailed(c))
    BY <1>7, <2>1, <2>2, LoadedSend
  <2>4. LoadedAt(c)'
    BY <1>7, <2>1, <2>3 DEF LoadedAt, FrontFile, Send, TypeOK, StartFailed, Failed
  <2> QED
    BY <1>0, <1>7, <2>4, LoadedOthers
       DEF AfterReceive, Send, TypeOK, FrontFile, Busy, StartFailed, Failed
<1>8. ASSUME NEW c \in Clients, GrantCropWindow(c) \/ EndCurrentFrame(c) \/ StartNextFrame(c)
      PROVE  ScenesLoaded'
  <2>1. /\ Received(c, "request_render_task") /\ toServer' = AfterReceive(c)
        /\ UNCHANGED <<connections, scene, jobFiles, failures>>
        /\ \A r \in Clients \ {c} : status'[r] = status[r]
    BY <1>8 DEF GrantCropWindow, EndCurrentFrame, StartNextFrame, LeavesFrame, svrVars, history, TypeOK
  <2>2. frame \in [Clients -> Int] /\ frame[c] \in Int /\ frame = [frame EXCEPT ![c] = frame[c]]
    BY DEF TypeOK
  <2>3. CASE GrantCropWindow(c)
    <3> DEFINE m == RenderCrop([frame |-> nextFrame, place |-> NextPlace(c)])
    <3>1. m \in ToClient /\ m.kind = "render_crop"
      BY NextPlaceType, MessageTypes DEF CropWindow, TypeOK, RenderCrop
    <3>2. toClient' = Send(c, m) /\ frame' = frame
      BY <2>3 DEF GrantCropWindow
    <3> HIDE DEF m
    <3> QED
      BY <1>7, <2>1, <2>2, <3>1, <3>2
  <2>4. CASE EndCurrentFrame(c)
    <3> DEFINE m == EndFrame(frame[c])
    <3>1. m \in ToClient /\ m.kind = "end_frame"
      BY <2>2, MessageTypes DEF EndFrame
    <3>2. toClient' = Send(c, m) /\ frame' = frame
      BY <2>4 DEF EndCurrentFrame
    <3> HIDE DEF m
    <3> QED
      BY <1>7, <2>1, <2>2, <3>1, <3>2
  <2>5. CASE StartNextFrame(c)
    <3>1. NextAfter(c) \in Int
      BY <2>1, EndFrameFacts
    <3>2. toClient' = Send(c, StartFrame(NextAfter(c))) /\ frame' = [frame EXCEPT ![c] = NextAfter(c)]
      BY <2>5 DEF StartNextFrame, FramesAfter
    <3>3. StartFrame(NextAfter(c)) \in ToClient
      BY <3>1, MessageTypes
    <3> QED
      BY <1>7, <2>1, <3>1, <3>2, <3>3
  <2> QED
    BY <1>8, <2>3, <2>4, <2>5
<1>9. ASSUME NEW c \in Clients, GoIdle(c) PROVE ScenesLoaded'
  <2>1. /\ ~Busy(c)' /\ UNCHANGED <<scene, jobFiles, toClient, connections, failures>>
        /\ toServer' = AfterReceive(c)
        /\ frame' = FramesAfter(c) /\ status' = [status EXCEPT ![c] = "IDLE"]
    BY <1>9 DEF GoIdle, Busy, TypeOK, history
  <2> QED
    BY <1>0, <2>1, LoadedOthers
       DEF TypeOK, FrontFile, Busy, AfterReceive, FramesAfter, StartFailed, Failed
<1>10. ASSUME NEW c \in Clients, EndScene(c) PROVE ScenesLoaded'
  <2> DEFINE st == [status EXCEPT ![c] = "IDLE"]
  <2>1. /\ Received(c, "request_render_task") /\ UNCHANGED <<connections, scene>> /\ SceneEnds(c)
        /\ toServer' = AfterReceive(c)
        /\ DoRenderScene(Tail(jobFiles), EndedCur(c), EndedNext(c), type, FramesAfter(c), st, EndSceneSent)
    BY <1>10 DEF EndScene, LeavesFrame
  <2>2. c \in Renderers /\ AfterReceive(c)[c] = <<>> /\ jobFiles # <<>> /\ jobFiles \in Seq(Job)
    BY <2>1, RequestFacts DEF TypeOK
  <2>3. \A r \in Renderers : r \in connections => st[r] = "IDLE" /\ toServer'[r] = <<>>
    <3> SUFFICES ASSUME NEW r \in Renderers, r \in connections PROVE st[r] = "IDLE" /\ toServer'[r] = <<>>
      OBVIOUS
    <3>1. CASE r = c
      BY <2>1, <2>2, <3>1 DEF TypeOK
    <3>2. CASE r # c
      <4>1. status[r] = "IDLE"
        BY <2>1, <3>2 DEF SceneEnds, Roles
      <4>2. toServer[r] = <<>>
        BY <4>1 DEF OneTask
      <4> QED
        BY <1>0, <2>1, <3>2, <4>1, <4>2 DEF AfterReceive, TypeOK
    <3> QED
      BY <3>1, <3>2
  <2>4. Tail(jobFiles) \in Seq(Job)
    BY <2>2
  <2>5. EndSceneSent \in [Clients -> Seq(ToClient)]
    BY MessageTypes DEF EndSceneSent, TypeOK
  <2> HIDE DEF st
  <2> QED
    BY <2>1, <2>3, <2>4, <2>5, DoRenderSceneLoaded
<1>11. ASSUME NEW c \in Renderers, NEW ins, NEW sc,
              toServer' = [toServer EXCEPT ![c] = ins], scene' = [scene EXCEPT ![c] = sc],
              toClient' = AfterDelivery(c), UNCHANGED <<connections, status, frame, jobFiles>>,
              \A r \in Renderers \ {c} : StartFailed(r)' = StartFailed(r),
              Busy(c) => Loaded(ins, Tail(toClient[c]), sc, frame[c], FrontFile, StartFailed(c)')
      PROVE  ScenesLoaded'
  <2>1. Busy(c) => LoadedAt(c)'
    BY <1>0, <1>11 DEF LoadedAt, FrontFile, AfterDelivery, TypeOK
  <2> QED
    BY <1>0, <1>11, <2>1, LoadedOthers DEF TypeOK, FrontFile, Busy, AfterDelivery
<1>12. ASSUME NEW c \in Renderers, NEW sc, scene' = [scene EXCEPT ![c] = sc],
              toClient' = AfterDelivery(c), toClient[c] # <<>>,
              UNCHANGED <<toServer, connections, status, frame, jobFiles>>,
              Head(toClient[c]).kind \in {"start_render_scene", "end_render_scene"},
              \A r \in Renderers \ {c} : StartFailed(r)' = StartFailed(r),
              Head(toClient[c]) = StartRenderScene(FrontFile) =>
                StartFailed(c)' \/ (sc.script = FrontFile /\ sc.file = FrontFile)
       PROVE  ScenesLoaded'
  <2>1. toClient[c] \in Seq(ToClient) /\ toServer' = [toServer EXCEPT ![c] = toServer[c]]
    BY <1>0, <1>12 DEF TypeOK
  <2>2. Busy(c) => Loaded(toServer[c], toClient[c], scene[c], frame[c], FrontFile, StartFailed(c))
    BY DEF ScenesLoaded, LoadedAt
  <2>3. Busy(c) => Loaded(toServer[c], Tail(toClient[c]), sc, frame[c], FrontFile, StartFailed(c)')
    BY <1>12, <2>1, <2>2, LoadedDeliver
  <2> QED
    BY <1>11, <1>12, <2>1, <2>3
<1>13. ASSUME NEW c \in Renderers, DoStartRenderScene(c) \/ DoEndRenderScene(c) PROVE ScenesLoaded'
  <2> USE DEF clientUnchanged, svrVars, nodeVars
  <2>1. /\ toClient' = AfterDelivery(c) /\ UNCHANGED <<toServer, connections, status, frame, jobFiles>>
        /\ toClient[c] # <<>> /\ UNCHANGED failures
        /\ Head(toClient[c]).kind \in {"start_render_scene", "end_render_scene"}
    BY <1>13 DEF DoStartRenderScene, DoEndRenderScene, Delivered
  <2>2. \A r \in Renderers : StartFailed(r)' = StartFailed(r)
    BY <2>1 DEF StartFailed, Failed, FrontFile
  <2>3. CASE DoStartRenderScene(c)
    <3> DEFINE sc == SceneOf(Head(toClient[c]).file, -1)
    <3>1. scene' = [scene EXCEPT ![c] = sc]
      BY <2>3 DEF DoStartRenderScene
    <3>2. Head(toClient[c]) = StartRenderScene(FrontFile) => sc.script = FrontFile /\ sc.file = FrontFile
      BY DEF StartRenderScene, SceneOf
    <3> HIDE DEF sc
    <3> QED
      BY <1>12, <2>1, <2>2, <3>1, <3>2
  <2>4. CASE DoEndRenderScene(c)
    <3> DEFINE sc == [script |-> scene[c].script, file |-> NoFile, frame |-> -1]
    <3>1. scene' = [scene EXCEPT ![c] = sc]
      BY <1>0, <2>4 DEF DoEndRenderScene, TypeOK
    <3>2. Head(toClient[c]) # StartRenderScene(FrontFile)
      BY <2>4 DEF DoEndRenderScene, Delivered, StartRenderScene
    <3> HIDE DEF sc
    <3> QED
      BY <1>12, <2>1, <2>2, <3>1, <3>2
  <2> QED
    BY <1>13, <2>3, <2>4
<1>14. ASSUME NEW c \in Renderers, StartSceneFails(c) \/ EndSceneFails(c) PROVE ScenesLoaded'
  <2>1. /\ toClient' = AfterDelivery(c) /\ UNCHANGED <<toServer, connections, status, frame, jobFiles>>
        /\ toClient[c] # <<>>
    BY <1>14, ScriptFailsFacts DEF ScriptFails
  <2>2. Head(toClient[c]).kind \in {"start_render_scene", "end_render_scene"}
    BY <1>14 DEF StartSceneFails, EndSceneFails, Delivered
  <2>3. PICK call, file : call \in {"startup", "cleanup"} /\ failures' = AfterFailure(c, call, file)
    BY <1>14 DEF StartSceneFails, EndSceneFails
  <2>4. \A r \in Renderers \ {c} : StartFailed(r)' = StartFailed(r)
    BY <2>1, <2>3 DEF StartFailed, Failed, AfterFailure, FrontFile
  <2>5. PICK sc : scene' = [scene EXCEPT ![c] = sc]
    <3>1. CASE StartSceneFails(c)
      BY <3>1 DEF StartSceneFails
    <3>2. CASE EndSceneFails(c)
      <4>1. scene' = [scene EXCEPT ![c] = scene[c]]
        BY <3>2 DEF EndSceneFails, TypeOK
      <4> QED
        BY <4>1
    <3> QED
      BY <1>14, <3>1, <3>2
  <2>6. Head(toClient[c]) = StartRenderScene(FrontFile) => StartFailed(c)'
    <3> SUFFICES ASSUME Head(toClient[c]) = StartRenderScene(FrontFile) PROVE StartFailed(c)'
      OBVIOUS
    <3>1. Head(toClient[c]).kind = "start_render_scene" /\ Head(toClient[c]).file = FrontFile
      BY DEF StartRenderScene
    <3>2. failures' = AfterFailure(c, "startup", FrontFile)
      BY <1>14, <3>1 DEF StartSceneFails, EndSceneFails, Delivered
    <3> QED
      BY <2>1, <3>2 DEF StartFailed, Failed, AfterFailure, FrontFile
  <2> QED
    BY <1>12, <2>1, <2>2, <2>4, <2>5, <2>6
<1>15. ASSUME NEW c \in Renderers, Delivered(c, "render_crop") \/ Delivered(c, "start_frame")
                                   \/ Delivered(c, "end_frame")
       PROVE  /\ c \in Clients /\ Busy(c) /\ toServer[c] = <<>> /\ toClient[c] \in Seq(ToClient)
              /\ Len(toClient[c]) = 1 /\ Tail(toClient[c]) = <<>> /\ Head(toClient[c]) = toClient[c][1]
              /\ scene[c] \in Scene
              /\ Loaded(<<>>, toClient[c], scene[c], frame[c], FrontFile, StartFailed(c))
  <2>1. /\ c \in alive /\ toClient[c] # <<>> /\ toClient[c] \in Seq(ToClient) /\ scene[c] \in Scene
        /\ Task(Head(toClient[c])) /\ Head(toClient[c]) = toClient[c][1] /\ 1 \in DOMAIN toClient[c]
    BY <1>0, <1>15 DEF Delivered, TypeOK, Task
  <2>2. Len(toClient[c]) = 1 /\ toServer[c] = <<>> /\ c \in connections /\ status[c] # "IDLE"
    <3>1. c \in connections
      BY <2>1 DEF Roles
    <3>2. \A i \in DOMAIN toClient[c] :
             Task(toClient[c][i]) => /\ i = Len(toClient[c]) /\ toServer[c] = <<>>
                                     /\ (c \in connections => status[c] # "IDLE")
      BY <1>15 DEF OneTask
    <3>3. Task(toClient[c][1])
      BY <2>1
    <3>4. 1 = Len(toClient[c]) /\ toServer[c] = <<>> /\ (c \in connections => status[c] # "IDLE")
      BY <2>1, <3>2, <3>3
    <3> QED
      BY <3>1, <3>4
  <2>3. Tail(toClient[c]) = <<>>
    BY <2>1, <2>2, TailOfOne
  <2> QED
    BY <1>0, <2>1, <2>2, <2>3 DEF Busy, ScenesLoaded, LoadedAt
<1>16. ASSUME NEW c \in Renderers, DoRenderCrop(c) \/ DoEndFrame(c) PROVE ScenesLoaded'
  <2> USE DEF clientUnchanged, svrVars, nodeVars
  <2>1. /\ toClient' = AfterDelivery(c)
        /\ UNCHANGED <<scene, connections, status, frame, jobFiles, failures>>
        /\ Delivered(c, "render_crop") \/ Delivered(c, "end_frame")
    BY <1>16 DEF DoRenderCrop, DoEndFrame
  <2>2. \A r \in Renderers : StartFailed(r)' = StartFailed(r)
    BY <2>1 DEF StartFailed, Failed, FrontFile
  <2>3. /\ toServer[c] = <<>> /\ Len(toClient[c]) = 1 /\ toClient[c] \in Seq(ToClient) /\ scene[c] \in Scene
        /\ toClient[c][1].kind \in {"render_crop", "end_frame"} /\ Tail(toClient[c]) = <<>>
        /\ Loaded(<<>>, toClient[c], scene[c], frame[c], FrontFile, StartFailed(c))
    BY <1>15, <2>1 DEF Delivered
  <2>4. Shows(scene[c], frame[c], FrontFile, StartFailed(c)')
    <3> DEFINE outs == toClient[c]
               sc == scene[c]
               f == frame[c]
               failed == StartFailed(c)
    <3>1. outs \in Seq(ToClient) /\ Len(outs) = 1 /\ Loaded(<<>>, outs, sc, f, FrontFile, failed)
          /\ outs[1].kind \in {"render_crop", "end_frame"}
      BY <2>3
    <3> HIDE DEF outs, sc, f, failed
    <3>2. Shows(sc, f, FrontFile, failed)
      BY <3>1, LoadedTask
    <3> QED
      BY <2>2, <3>2 DEF sc, f, failed, Shows
  <2>5. scene' = [scene EXCEPT ![c] = scene[c]]
    BY <1>0, <2>1 DEF TypeOK
  <2>6. CASE DoRenderCrop(c)
    <3> DEFINE ins == <<>> \o <<AddSample(scene[c], Head(toClient[c]).win.place), WriteImage, RequestTask>>
    <3>1. toServer' = [toServer EXCEPT ![c] = ins]
      BY <2>3, <2>6 DEF DoRenderCrop, Reply
    <3>2. Loaded(ins, <<>>, scene[c], frame[c], FrontFile, StartFailed(c)')
      BY <2>4, LoadedAnswer
    <3> HIDE DEF ins
    <3> QED
      BY <1>11, <2>1, <2>2, <2>3, <2>5, <3>1, <3>2
  <2>7. CASE DoEndFrame(c)
    <3> DEFINE ins == <<>> \o <<RequestTask>>
    <3>1. toServer' = [toServer EXCEPT ![c] = ins]
      BY <2>3, <2>7 DEF DoEndFrame, Reply
    <3>2. Loaded(ins, <<>>, scene[c], frame[c], FrontFile, StartFailed(c)')
      BY <2>4, LoadedAnswer
    <3> HIDE DEF ins
    <3> QED
      BY <1>11, <2>1, <2>2, <2>3, <2>5, <3>1, <3>2
  <2> QED
    BY <1>16, <2>6, <2>7
<1>17. ASSUME NEW c \in Renderers, DoStartFrame(c) PROVE ScenesLoaded'
  <2> USE DEF clientUnchanged, svrVars, nodeVars
  <2>1. /\ toClient' = AfterDelivery(c) /\ UNCHANGED <<connections, status, frame, jobFiles, failures>>
        /\ Delivered(c, "start_frame")
    BY <1>17 DEF DoStartFrame
  <2>2. \A r \in Renderers : StartFailed(r)' = StartFailed(r)
    BY <2>1 DEF StartFailed, Failed, FrontFile
  <2>3. /\ toServer[c] = <<>> /\ Len(toClient[c]) = 1 /\ toClient[c] \in Seq(ToClient) /\ scene[c] \in Scene
        /\ toClient[c][1].kind = "start_frame" /\ Tail(toClient[c]) = <<>>
        /\ Head(toClient[c]) = toClient[c][1]
        /\ Loaded(<<>>, toClient[c], scene[c], frame[c], FrontFile, StartFailed(c))
    BY <1>15, <2>1 DEF Delivered
  <2> DEFINE sc == [scene[c] EXCEPT !.frame = toClient[c][1].frame]
             ins == <<>> \o <<RequestTask>>
  <2>4. Shows(sc, frame[c], FrontFile, StartFailed(c)')
    <3>1. Shows(sc, frame[c], FrontFile, StartFailed(c))
      BY <2>3, LoadedFrame
    <3> QED
      BY <2>2, <3>1 DEF Shows
  <2>5. scene' = [scene EXCEPT ![c] = sc] /\ toServer' = [toServer EXCEPT ![c] = ins]
    BY <1>0, <1>17, <2>3 DEF DoStartFrame, Reply, TypeOK
  <2> HIDE DEF sc
  <2>6. Loaded(ins, <<>>, sc, frame[c], FrontFile, StartFailed(c)')
    BY <2>4, LoadedAnswer
  <2> HIDE DEF ins
  <2> QED
    BY <1>11, <2>1, <2>2, <2>3, <2>5, <2>6
<1>18. ASSUME NEW c \in Renderers, TaskFails(c) PROVE ScenesLoaded'
  <2> USE DEF clientUnchanged, svrVars, nodeVars
  <2>1. /\ toClient' = AfterDelivery(c) /\ UNCHANGED <<connections, status, frame, jobFiles, toServer>>
        /\ UNCHANGED <<scene, failures>>
        /\ Delivered(c, "start_frame") \/ Delivered(c, "render_crop")
    BY <1>18 DEF TaskFails
  <2>6. \A r \in Renderers : StartFailed(r)' = StartFailed(r)
    BY <2>1 DEF StartFailed, Failed, FrontFile
  <2>2. toServer[c] = <<>> /\ Tail(toClient[c]) = <<>>
    BY <1>15, <2>1
  <2>3. toServer' = [toServer EXCEPT ![c] = <<>>] /\ scene' = [scene EXCEPT ![c] = scene[c]]
    BY <1>0, <2>1, <2>2 DEF TypeOK
  <2>4. Loaded(<<>>, Tail(toClient[c]), scene[c], frame[c], FrontFile, StartFailed(c)')
    BY <2>2, LoadedQuiet
  <2> DEFINE ins == <<>>
             sc == scene[c]
  <2>5. toServer' = [toServer EXCEPT ![c] = ins] /\ scene' = [scene EXCEPT ![c] = sc]
        /\ Loaded(ins, Tail(toClient[c]), sc, frame[c], FrontFile, StartFailed(c)')
    BY <2>3, <2>4
  <2> HIDE DEF ins, sc
  <2> QED
    BY <1>11, <2>1, <2>6, <2>5
<1>19. ASSUME NEW c \in Controllers, ControllerRead(c) PROVE ScenesLoaded'
  <2>1. UNCHANGED <<toServer, scene, connections, status, frame, jobFiles, failures>>
        /\ toClient' = AfterDelivery(c)
    BY <1>19 DEF ControllerRead, clientUnchanged, svrVars, nodeVars
  <2> QED
    BY <1>0, <2>1, LoadedOthers DEF AfterDelivery, TypeOK, FrontFile, Busy, StartFailed, Failed
<1>20. CASE UNCHANGED vars
  BY <1>20 DEF vars, svrVars, nodeVars, history, ScenesLoaded, LoadedAt, Busy, FrontFile, StartFailed, Failed
<1> QED
  BY <1>1, <1>2, <1>3, <1>4, <1>5, <1>6, <1>8, <1>9, <1>10, <1>13, <1>14, <1>16, <1>17,
     <1>18, <1>19, <1>20
     DEF Next, ServerStep, RequestRenderTask, RendererStep, ScriptFails

\* The samples that arrive show the frame whose film gets them, of the scene rendered if
\* the client's start of it did not fail: whichever clients join or are lost, and whatever
\* else fails.
LEMMA ScenesLoadedHolds == Spec => []ScenesLoaded
<1>1. Init => ScenesLoaded
  BY DEF Init, ScenesLoaded, Busy
<1>2. ServesFrontJob /\ ScenesLoaded /\ [Next]_vars => ScenesLoaded'
  BY LoadedStep
<1> QED
  BY <1>1, <1>2, ServesFrontJobHolds, PTL DEF Spec

\* Samples show the frame whose film gets them, of the front scene unless its start failed
\* on the client that sent them.
THEOREM SamplesMatchFilmHolds == Spec => []SamplesMatchFilm
<1>1. ServesFrontJob /\ ScenesLoaded => SamplesMatchFilm
  <2> SUFFICES ASSUME ServesFrontJob, ScenesLoaded, NEW r \in Renderers, NEW i \in DOMAIN toServer[r],
                      toServer[r][i].kind = "add_sample"
               PROVE  Shows(toServer[r][i].scene, frame[r], FrontFile, StartFailed(r))
    BY DEF SamplesMatchFilm, Shows, StartFailed, FrontFile
  <2>1. toServer[r] # <<>>
    BY DEF ServesFrontJob, TypeOK, Clients
  <2>2. Busy(r)
    BY <2>1 DEF ServesFrontJob, OneTask, Busy
  <2> QED
    BY <2>2 DEF ScenesLoaded, LoadedAt, Loaded
<1> QED
  BY <1>1, ScenesLoadedHolds, ServesFrontJobHolds, PTL
-----------------------------------------------------------------------------
(***************************************************************************)
(* Clean is for the messages outs on their way to a client that has loaded *)
(* scene sc: it is ready when it starts a scene, where ready is the set of *)
(* the scenes that another may be started after.  AtRest: it is ready when *)
(* it has read them all.                                                   *)
(***************************************************************************)
Starts(m) == m.kind = "start_render_scene"
CleansUp(m) == m.kind = "end_render_scene"

Clean(outs, sc, ready) ==
  \A i \in DOMAIN outs : Starts(outs[i]) => IF i = 1 THEN sc \in ready ELSE CleansUp(outs[i - 1])
AtRest(outs, sc, ready) == IF outs = <<>> THEN sc \in ready ELSE CleansUp(outs[Len(outs)])

Ready(r) == {sc \in Scene : sc.file # NoFile => Failed(r, "cleanup", sc.file)}
CleanAt(r) ==
  /\ Clean(toClient[r], scene[r], Ready(r))
  /\ jobFiles = <<>> => AtRest(toClient[r], scene[r], Ready(r))
CleanScenes == \A r \in Renderers : r \in alive => CleanAt(r)

\* The server sends a message that starts no scene, or tells a client to clean up.
LEMMA CleanSend ==
  ASSUME NEW outs \in Seq(ToClient), NEW sc, NEW ready, Clean(outs, sc, ready), NEW m \in ToClient, ~Starts(m)
  PROVE  /\ Append(outs, m) \in Seq(ToClient) /\ Clean(Append(outs, m), sc, ready)
         /\ CleansUp(m) => AtRest(Append(outs, m), sc, ready)
<1>1. /\ Append(outs, m) \in Seq(ToClient) /\ Len(Append(outs, m)) = Len(outs) + 1
      /\ Append(outs, m)[Len(outs) + 1] = m /\ Append(outs, m) # <<>>
      /\ \A i \in DOMAIN outs : Append(outs, m)[i] = outs[i]
      /\ DOMAIN Append(outs, m) = DOMAIN outs \cup {Len(outs) + 1} /\ DOMAIN outs = 1 .. Len(outs)
  OBVIOUS
<1>2. AtRest(Append(outs, m), sc, ready) <=> CleansUp(m)
  BY <1>1 DEF AtRest
<1>3. ASSUME NEW i \in DOMAIN outs, Starts(outs[i])
      PROVE  IF i = 1 THEN sc \in ready ELSE CleansUp(Append(outs, m)[i - 1])
  <2>1. i # 1 => i - 1 \in DOMAIN outs
    BY <1>1
  <2> QED
    BY <1>1, <1>3, <2>1 DEF Clean
<1> QED
  BY <1>1, <1>2, <1>3 DEF Clean

\* The server starts a scene in a client that will be at rest.
LEMMA CleanStart ==
  ASSUME NEW outs \in Seq(ToClient), NEW sc, NEW ready, Clean(outs, sc, ready), AtRest(outs, sc, ready),
         NEW file \in Files, NEW f \in Int
  PROVE  Clean(outs \o <<StartRenderScene(file), StartFrame(f)>>, sc, ready)
<1> DEFINE a == StartRenderScene(file)
           b == StartFrame(f)
           t == Append(outs, a)
<1>1. a \in ToClient /\ b \in ToClient /\ ~Starts(b)
  BY MessageTypes DEF StartFrame, Starts
<1> HIDE DEF a, b
<1>2. outs \o <<a, b>> = Append(t, b)
  BY <1>1
<1>3. /\ t \in Seq(ToClient) /\ t[Len(outs) + 1] = a
      /\ \A i \in DOMAIN outs : t[i] = outs[i]
      /\ DOMAIN t = DOMAIN outs \cup {Len(outs) + 1} /\ DOMAIN outs = 1 .. Len(outs) /\ Len(outs) \in Nat
  BY <1>1
<1>4. Clean(t, sc, ready)
  <2> SUFFICES ASSUME NEW i \in DOMAIN t, Starts(t[i])
               PROVE  IF i = 1 THEN sc \in ready ELSE CleansUp(t[i - 1])
    BY DEF Clean
  <2>1. CASE i \in DOMAIN outs
    <3>1. i # 1 => i - 1 \in DOMAIN outs
      BY <1>3, <2>1
    <3> QED
      BY <1>3, <2>1, <3>1 DEF Clean
  <2>2. CASE i = Len(outs) + 1
    <3>1. CASE outs = <<>>
      BY <2>2, <3>1 DEF AtRest
    <3>2. CASE outs # <<>>
      <4>1. i # 1 /\ i - 1 = Len(outs) /\ Len(outs) \in DOMAIN outs
        BY <2>2, <3>2
      <4> QED
        BY <1>3, <3>2, <4>1 DEF AtRest
    <3> QED
      BY <3>1, <3>2
  <2> QED
    BY <1>3, <2>1, <2>2
<1> HIDE DEF t
<1>5. Clean(Append(t, b), sc, ready)
  BY <1>1, <1>3, <1>4, CleanSend
<1> QED
  BY <1>2, <1>5 DEF a, b

\* The client reads that it has to start or to clean up a scene.
LEMMA CleanDeliver ==
  ASSUME NEW outs \in Seq(ToClient), outs # <<>>, NEW sc, NEW ready, Clean(outs, sc, ready), NEW sc2, NEW ready2,
         Starts(Head(outs)) \/ (CleansUp(Head(outs)) /\ sc2 \in ready2)
  PROVE  /\ Clean(Tail(outs), sc2, ready2)
         /\ AtRest(outs, sc, ready) => AtRest(Tail(outs), sc2, ready2)
<1> DEFINE t == Tail(outs)
<1>0. ~(Starts(Head(outs)) /\ CleansUp(Head(outs)))
  BY DEF Starts, CleansUp
<1>1. /\ t \in Seq(ToClient) /\ Len(t) = Len(outs) - 1 /\ Head(outs) = outs[1]
      /\ \A i \in DOMAIN t : t[i] = outs[i + 1] /\ i + 1 \in DOMAIN outs
  BY TailOfSeq
<1>2. DOMAIN t = 1 .. Len(t) /\ (t = <<>> <=> Len(t) = 0) /\ Len(t) \in Nat
  <2>1. t \in Seq(ToClient)
    BY <1>1
  <2> HIDE DEF t
  <2> QED
    BY <2>1
<1> HIDE DEF t
<1>3. Clean(t, sc2, ready2)
  <2> SUFFICES ASSUME NEW i \in DOMAIN t, Starts(t[i])
               PROVE  IF i = 1 THEN sc2 \in ready2 ELSE CleansUp(t[i - 1])
    BY DEF Clean
  <2>1. CleansUp(outs[i])
    <3>1. Starts(outs[i + 1]) /\ i + 1 \in DOMAIN outs /\ i + 1 # 1 /\ (i + 1) - 1 = i
      BY <1>1, <1>2
    <3> QED
      BY <3>1 DEF Clean
  <2>2. CASE i = 1
    BY <1>0, <1>1, <2>1, <2>2
  <2>3. CASE i # 1
    <3>1. i - 1 \in DOMAIN t /\ (i - 1) + 1 = i
      BY <1>2, <2>3
    <3>2. t[i - 1] = outs[i]
      BY <1>1, <3>1
    <3> QED
      BY <2>1, <2>3, <3>2
  <2> QED
    BY <2>2, <2>3
<1>4. ASSUME AtRest(outs, sc, ready) PROVE AtRest(t, sc2, ready2)
  <2>1. CleansUp(outs[Len(outs)])
    BY <1>4 DEF AtRest
  <2>2. CASE t = <<>>
    <3>1. Len(outs) = 1
      BY <1>1, <1>2, <2>2
    <3> QED
      BY <1>0, <1>1, <2>1, <2>2, <3>1 DEF AtRest
  <2>3. CASE t # <<>>
    <3>1. Len(t) \in DOMAIN t /\ Len(t) + 1 = Len(outs)
      BY <1>1, <1>2, <2>3
    <3>2. t[Len(t)] = outs[Len(outs)]
      BY <1>1, <3>1
    <3> QED
      BY <2>1, <2>3, <3>2 DEF AtRest
  <2> QED
    BY <2>2, <2>3
<1> QED
  BY <1>3, <1>4 DEF t

\* A step that concerns one client leaves the others clean.
LEMMA CleanOthers ==
  ASSUME CleanScenes, NEW c, UNCHANGED jobFiles, failures \subseteq failures',
         \A r \in Renderers \ {c} :
           /\ toClient'[r] = toClient[r] /\ scene'[r] = scene[r]
           /\ r \in alive' => r \in alive,
         c \in Renderers /\ c \in alive' => CleanAt(c)'
  PROVE  CleanScenes'
<1>1. \A r : Ready(r) \subseteq Ready(r)'
  BY DEF Ready, Failed
<1> QED
  BY <1>1 DEF CleanScenes, CleanAt, Clean, AtRest

\* do_render_scene finds every client at rest.
LEMMA DoRenderSceneClean ==
  ASSUME TypeOK, NEW q \in Seq(Job), NEW cur, NEW nxt, NEW tp, NEW fr, NEW st,
         NEW out \in [Clients -> Seq(ToClient)],
         DoRenderScene(q, cur, nxt, tp, fr, st, out), UNCHANGED <<alive, scene, failures>>,
         \A r \in Renderers : r \in alive => Clean(out[r], scene[r], Ready(r)) /\ AtRest(out[r], scene[r], Ready(r))
  PROVE  CleanScenes'
<1> DEFINE job == Head(q)
           started == q # <<>> /\ job.file \notin BrokenStartup
           woken == {r \in connections : started /\ tp[r] # "CONTROLLER" /\ st[r] = "IDLE"}
           sent == <<StartRenderScene(job.file), StartFrame(job.begin)>>
<1>1. /\ jobFiles' = q
      /\ toClient' = [r \in Clients |-> IF r \in woken THEN out[r] \o sent ELSE out[r]]
  BY DEF DoRenderScene
<1> SUFFICES ASSUME NEW r \in Renderers, r \in alive PROVE CleanAt(r)'
  BY DEF CleanScenes
<1>2. r \in Clients /\ out[r] \in Seq(ToClient) /\ Clean(out[r], scene[r], Ready(r)) /\ AtRest(out[r], scene[r], Ready(r))
  BY DEF Clients
<1>5. Ready(r)' = Ready(r)
  BY DEF Ready, Failed
<1>3. CASE r \in woken
  <2>1. q # <<>> /\ job \in Job
    BY <1>3
  <2>2. job.begin \in Int /\ job.file \in Files
    BY <2>1 DEF Job
  <2>3. Clean(out[r] \o sent, scene[r], Ready(r))
    BY <1>2, <2>2, CleanStart
  <2> QED
    BY <1>1, <1>2, <1>3, <1>5, <2>1, <2>3 DEF CleanAt
<1>4. CASE r \notin woken
  BY <1>1, <1>2, <1>4, <1>5 DEF CleanAt
<1> QED
  BY <1>3, <1>4

\* Every step keeps CleanScenes.
LEMMA CleanStep ==
  ASSUME ServesFrontJob, CleanScenes, [Next]_vars
  PROVE  CleanScenes'
<1> USE DEF ServesFrontJob
<1>0. Renderers \subseteq Clients /\ \A r \in Renderers : r \notin Controllers
  BY ClientsAssumption DEF Clients
<1>1. ASSUME UNCHANGED <<jobFiles, scene, toClient, failures>>, alive' \subseteq alive PROVE CleanScenes'
  <2>1. \A r : Ready(r)' = Ready(r)
    BY <1>1 DEF Ready, Failed
  <2> QED
    BY <1>1, <2>1 DEF CleanScenes, CleanAt
<1>2. ASSUME NEW c \in Clients, Accept(c) PROVE CleanScenes'
  <2>1. /\ UNCHANGED <<jobFiles, failures>> /\ alive' = alive \cup {c} /\ c \notin alive
        /\ toClient' = [toClient EXCEPT ![c] = <<>>] /\ scene' = [scene EXCEPT ![c] = NoScene]
    BY <1>2 DEF Accept, history
  <2>2. CleanAt(c)'
    BY <2>1 DEF CleanAt, Clean, AtRest, TypeOK, Ready, NoScene, SceneOf, Scene
  <2>3. \A r \in Renderers \ {c} : toClient'[r] = toClient[r] /\ scene'[r] = scene[r]
    BY <1>0, <2>1 DEF TypeOK
  <2> QED
    BY <2>1, <2>2, <2>3, CleanOthers
<1>3. ASSUME NEW c \in Clients, LoseClient(c) \/ DisconnectRenderNode(c) PROVE CleanScenes'
  <2>1. /\ UNCHANGED <<jobFiles, scene, failures>> /\ alive' \subseteq alive /\ c \notin alive'
        /\ toClient' = [toClient EXCEPT ![c] = <<>>]
    BY <1>3 DEF LoseClient, DisconnectRenderNode, svrVars, history
  <2>2. \A r \in Renderers \ {c} : toClient'[r] = toClient[r] /\ scene'[r] = scene[r]
    BY <1>0, <2>1 DEF TypeOK
  <2> QED
    BY <2>1, <2>2, CleanOthers
<1>4. ASSUME NEW q \in Seq(Job), NEW cur, NEW nxt, NEW tp, NEW fr, NEW st,
             NEW out \in [Clients -> Seq(ToClient)],
             DoRenderScene(q, cur, nxt, tp, fr, st, out), UNCHANGED <<alive, scene, failures>>,
             \A r \in Renderers : r \in alive => Clean(out[r], scene[r], Ready(r)) /\ AtRest(out[r], scene[r], Ready(r))
      PROVE  CleanScenes'
  BY <1>4, DoRenderSceneClean
<1>5. ASSUME NEW c \in Clients, RenderScene(c) PROVE CleanScenes'
  <2> DEFINE job == Head(toServer[c]).job
             tp == [type EXCEPT ![c] = "CONTROLLER"]
  <2>1. UNCHANGED <<alive, scene, failures>> /\ job \in Job
    BY <1>5, ReceiveType, MessageFields DEF RenderScene, history
  <2>2. CASE jobFiles = <<>> /\ DoRenderScene(<<job>>, curFrame, nextFrame, tp, frame, status, toClient)
    <3>1. <<job>> \in Seq(Job) /\ toClient \in [Clients -> Seq(ToClient)]
      BY <2>1 DEF TypeOK
    <3>2. \A r \in Renderers : r \in alive => Clean(toClient[r], scene[r], Ready(r)) /\ AtRest(toClient[r], scene[r], Ready(r))
      BY <2>2 DEF CleanScenes, CleanAt
    <3> HIDE DEF job, tp
    <3> QED
      BY <1>4, <2>1, <2>2, <3>1, <3>2
  <2>3. CASE UNCHANGED toClient /\ (jobFiles' = jobFiles \/ (jobFiles # <<>> /\ jobFiles' = Append(jobFiles, job)))
    <3>1. \A s \in Seq(Job), j \in Job : Append(s, j) # <<>>
      <4>1. \A s \in Seq(Job) : Len(s) # 0 => s # <<>>
        OBVIOUS
      <4>2. \A s \in Seq(Job), j \in Job : Append(s, j) \in Seq(Job) /\ Len(Append(s, j)) # 0
        BY AppendToSeq
      <4> QED
        BY <4>1, <4>2, Zenon
    <3>2. jobFiles \in Seq(Job)
      BY DEF TypeOK
    <3> HIDE DEF job, tp
    <3>3. jobFiles' = <<>> => jobFiles = <<>>
      BY <2>1, <2>3, <3>1, <3>2, Zenon
    <3> QED
      <4>1. \A r : Ready(r)' = Ready(r)
        BY <2>1 DEF Ready, Failed
      <4> QED
        BY <2>1, <2>3, <3>3, <4>1 DEF CleanScenes, CleanAt
  <2>4. \/ jobFiles = <<>> /\ DoRenderScene(<<job>>, curFrame, nextFrame, tp, frame, status, toClient)
        \/ UNCHANGED toClient /\ (jobFiles' = jobFiles \/ (jobFiles # <<>> /\ jobFiles' = Append(jobFiles, job)))
    BY <1>5 DEF RenderScene
  <2> HIDE DEF job, tp
  <2> QED
    BY <2>2, <2>3, <2>4
<1>6. ASSUME NEW c \in Clients, NEW m \in ToClient, ~Starts(m), jobFiles # <<>>,
             toClient' = Send(c, m), UNCHANGED <<alive, scene, jobFiles, failures>>
      PROVE  CleanScenes'
  <2>1. toClient'[c] = Append(toClient[c], m) /\ toClient[c] \in Seq(ToClient)
    BY <1>6 DEF Send, TypeOK
  <2>2. \A r \in Renderers \ {c} : toClient'[r] = toClient[r]
    BY <1>0, <1>6 DEF Send, TypeOK
  <2>3. c \in Renderers /\ c \in alive' => CleanAt(c)'
    <3>1. Ready(c)' = Ready(c)
      BY <1>6 DEF Ready, Failed
    <3> QED
      BY <1>6, <2>1, <3>1, CleanSend DEF CleanScenes, CleanAt
  <2> QED
    BY <1>6, <2>2, <2>3, CleanOthers
<1>7. ASSUME NEW c \in Clients, GrantCropWindow(c) \/ EndCurrentFrame(c) \/ StartNextFrame(c) PROVE CleanScenes'
  <2>1. /\ Received(c, "request_render_task") /\ UNCHANGED <<alive, scene, jobFiles, failures>>
    BY <1>7 DEF GrantCropWindow, EndCurrentFrame, StartNextFrame, LeavesFrame, svrVars, history
  <2>2. jobFiles # <<>>
    BY <2>1, RequestFacts
  <2>3. CASE GrantCropWindow(c)
    <3> DEFINE m == RenderCrop([frame |-> nextFrame, place |-> NextPlace(c)])
    <3>1. m \in ToClient /\ ~Starts(m)
      BY NextPlaceType, MessageTypes DEF CropWindow, TypeOK, RenderCrop, Starts
    <3>2. toClient' = Send(c, m)
      BY <2>3 DEF GrantCropWindow
    <3> HIDE DEF m
    <3> QED
      BY <1>6, <2>1, <2>2, <3>1, <3>2
  <2>4. CASE EndCurrentFrame(c)
    <3>1. EndFrame(frame[c]) \in ToClient /\ ~Starts(EndFrame(frame[c]))
      BY MessageTypes DEF EndFrame, Starts, TypeOK
    <3> QED
      BY <1>6, <2>1, <2>2, <2>4, <3>1 DEF EndCurrentFrame
  <2>5. CASE StartNextFrame(c)
    <3>1. NextAfter(c) \in Int
      BY <2>1, EndFrameFacts
    <3>2. StartFrame(NextAfter(c)) \in ToClient /\ ~Starts(StartFrame(NextAfter(c)))
      BY <3>1, MessageTypes DEF StartFrame, Starts
    <3> QED
      BY <1>6, <2>1, <2>2, <2>5, <3>2 DEF StartNextFrame
  <2> QED
    BY <1>7, <2>3, <2>4, <2>5
<1>8. ASSUME NEW c \in Clients, EndScene(c) PROVE CleanScenes'
  <2> DEFINE st == [status EXCEPT ![c] = "IDLE"]
  <2>1. /\ DoRenderScene(Tail(jobFiles), EndedCur(c), EndedNext(c), type, FramesAfter(c), st, EndSceneSent)
        /\ UNCHANGED <<alive, scene, failures>> /\ Received(c, "request_render_task")
    BY <1>8 DEF EndScene, LeavesFrame
  <2>2. Tail(jobFiles) \in Seq(Job)
    BY <2>1, RequestFacts DEF TypeOK
  <2>3. EndRenderScene \in ToClient /\ ~Starts(EndRenderScene) /\ CleansUp(EndRenderScene)
    BY MessageTypes DEF EndRenderScene, Starts, CleansUp
  <2>4. EndSceneSent \in [Clients -> Seq(ToClient)]
    BY <2>3 DEF EndSceneSent, TypeOK
  <2>5. ASSUME NEW r \in Renderers, r \in alive
        PROVE  Clean(EndSceneSent[r], scene[r], Ready(r)) /\ AtRest(EndSceneSent[r], scene[r], Ready(r))
    <3>1. r \in connections /\ type[r] # "CONTROLLER"
      BY <2>5 DEF Roles
    <3>2. EndSceneSent[r] = Append(toClient[r], EndRenderScene)
      BY <1>0, <3>1 DEF EndSceneSent
    <3>3. Clean(toClient[r], scene[r], Ready(r)) /\ toClient[r] \in Seq(ToClient)
      BY <1>0, <2>5 DEF CleanScenes, CleanAt, TypeOK
    <3> QED
      BY <2>3, <3>2, <3>3, CleanSend
  <2> HIDE DEF st
  <2> QED
    BY <1>4, <2>1, <2>2, <2>4, <2>5
<1>9. ASSUME NEW c \in Renderers, NEW sc, c \in alive, toClient' = AfterDelivery(c),
             scene' = [scene EXCEPT ![c] = sc], UNCHANGED <<alive, jobFiles>>,
             failures \subseteq failures',
             Clean(toClient[c], scene[c], Ready(c)) =>
               /\ Clean(Tail(toClient[c]), sc, Ready(c)')
               /\ jobFiles = <<>> /\ AtRest(toClient[c], scene[c], Ready(c)) =>
                    AtRest(Tail(toClient[c]), sc, Ready(c)')
      PROVE  CleanScenes'
  <2>1. toClient'[c] = Tail(toClient[c]) /\ scene'[c] = sc
    BY <1>0, <1>9 DEF AfterDelivery, TypeOK
  <2>2. \A r \in Renderers \ {c} : toClient'[r] = toClient[r] /\ scene'[r] = scene[r]
    BY <1>0, <1>9 DEF AfterDelivery, TypeOK
  <2>3. CleanAt(c)
    BY <1>9 DEF CleanScenes
  <2>4. CleanAt(c)'
    BY <1>9, <2>1, <2>3 DEF CleanAt
  <2> QED
    BY <1>9, <2>2, <2>4, CleanOthers
<1>10. ASSUME NEW c \in Renderers, NEW k, Delivered(c, k)
       PROVE  c \in alive /\ toClient[c] # <<>> /\ toClient[c] \in Seq(ToClient) /\ Head(toClient[c]).kind = k
              /\ scene[c] \in Scene /\ Head(toClient[c]) = toClient[c][1] /\ 1 \in DOMAIN toClient[c]
  BY <1>0, <1>10 DEF Delivered, TypeOK
<1>11. ASSUME NEW c \in Renderers, DoStartRenderScene(c) \/ StartSceneFails(c) PROVE CleanScenes'
  <2>1. /\ Delivered(c, "start_render_scene") /\ toClient' = AfterDelivery(c)
        /\ UNCHANGED <<alive, jobFiles>> /\ failures \subseteq failures'
    BY <1>11 DEF DoStartRenderScene, StartSceneFails, AfterFailure, clientUnchanged, svrVars
  <2>2. PICK sc : scene' = [scene EXCEPT ![c] = sc]
    BY <1>11 DEF DoStartRenderScene, StartSceneFails
  <2>3. c \in alive /\ toClient[c] # <<>> /\ toClient[c] \in Seq(ToClient) /\ Starts(Head(toClient[c]))
    BY <1>10, <2>1 DEF Starts
  <2>4. Clean(toClient[c], scene[c], Ready(c)) =>
          /\ Clean(Tail(toClient[c]), sc, Ready(c)')
          /\ AtRest(toClient[c], scene[c], Ready(c)) => AtRest(Tail(toClient[c]), sc, Ready(c)')
    BY <2>3, CleanDeliver
  <2> QED
    BY <1>9, <2>1, <2>2, <2>3, <2>4
<1>12. ASSUME NEW c \in Renderers, DoEndRenderScene(c) \/ EndSceneFails(c) PROVE CleanScenes'
  <2>1. /\ Delivered(c, "end_render_scene") /\ toClient' = AfterDelivery(c)
        /\ UNCHANGED <<alive, jobFiles>> /\ failures \subseteq failures'
    BY <1>12 DEF DoEndRenderScene, EndSceneFails, AfterFailure, clientUnchanged, svrVars
  <2>2. c \in alive /\ toClient[c] # <<>> /\ toClient[c] \in Seq(ToClient) /\ CleansUp(Head(toClient[c]))
        /\ scene[c] \in Scene
    BY <1>10, <2>1 DEF CleansUp
  <2>3. PICK sc \in Ready(c)' : scene' = [scene EXCEPT ![c] = sc]
    <3>1. CASE DoEndRenderScene(c)
      <4> DEFINE rest == [script |-> scene[c].script, file |-> NoFile, frame |-> -1]
      <4>1. rest \in Ready(c)'
        BY <2>2 DEF Ready, Scene
      <4>2. scene' = [scene EXCEPT ![c] = rest]
        BY <1>0, <3>1 DEF DoEndRenderScene, TypeOK
      <4> QED
        BY <4>1, <4>2
    <3>2. CASE EndSceneFails(c)
      <4>1. scene[c] \in Ready(c)'
        BY <2>2, <3>2 DEF EndSceneFails, AfterFailure, Failed, Ready
      <4>2. scene' = [scene EXCEPT ![c] = scene[c]]
        BY <3>2 DEF EndSceneFails, TypeOK
      <4> QED
        BY <4>1, <4>2
    <3> QED
      BY <1>12, <3>1, <3>2
  <2>4. Clean(toClient[c], scene[c], Ready(c)) =>
          /\ Clean(Tail(toClient[c]), sc, Ready(c)')
          /\ AtRest(toClient[c], scene[c], Ready(c)) => AtRest(Tail(toClient[c]), sc, Ready(c)')
    BY <2>2, <2>3, CleanDeliver
  <2> QED
    BY <1>9, <2>1, <2>2, <2>3, <2>4
<1>13. ASSUME NEW c \in Renderers, NEW sc, Delivered(c, "render_crop") \/ Delivered(c, "start_frame")
                                           \/ Delivered(c, "end_frame"),
              toClient' = AfterDelivery(c), scene' = [scene EXCEPT ![c] = sc],
              UNCHANGED <<alive, jobFiles, failures>>
       PROVE  CleanScenes'
  <2>1. c \in alive /\ Task(Head(toClient[c])) /\ toClient[c] # <<>> /\ toClient[c] \in Seq(ToClient)
        /\ toServer[c] \in Seq(ToServer) /\ c \in connections
    BY <1>0, <1>13 DEF Delivered, TypeOK, Task, Roles
  <2>2. Tail(toClient[c]) = <<>> /\ status[c] # "IDLE"
    BY <2>1, OneTaskOrderly, OrderlyTask
  <2>3. jobFiles # <<>>
    BY <2>1, <2>2 DEF BusyInFrontJob, Busy, Roles
  <2>4. Clean(Tail(toClient[c]), sc, Ready(c)')
    BY <2>2 DEF Clean
  <2> QED
    BY <1>9, <1>13, <2>1, <2>3, <2>4
<1>14. ASSUME NEW c \in Renderers, DoRenderCrop(c) \/ DoEndFrame(c) \/ TaskFails(c) PROVE CleanScenes'
  <2>1. /\ toClient' = AfterDelivery(c) /\ UNCHANGED <<scene, alive, jobFiles, failures>>
        /\ Delivered(c, "render_crop") \/ Delivered(c, "start_frame") \/ Delivered(c, "end_frame")
    BY <1>14 DEF DoRenderCrop, DoEndFrame, TaskFails, clientUnchanged, svrVars
  <2>2. scene' = [scene EXCEPT ![c] = scene[c]]
    BY <2>1 DEF TypeOK
  <2> QED
    BY <1>13, <2>1, <2>2
<1>15. ASSUME NEW c \in Renderers, DoStartFrame(c) PROVE CleanScenes'
  <2> DEFINE sc == [scene[c] EXCEPT !.frame = Head(toClient[c]).frame]
  <2>1. /\ toClient' = AfterDelivery(c) /\ UNCHANGED <<alive, jobFiles, failures>>
        /\ Delivered(c, "start_frame")
        /\ scene' = [scene EXCEPT ![c] = sc]
    BY <1>15 DEF DoStartFrame, clientUnchanged, svrVars
  <2> HIDE DEF sc
  <2> QED
    BY <1>13, <2>1
<1>16. ASSUME NEW c \in Controllers, ControllerRead(c) PROVE CleanScenes'
  <2>1. UNCHANGED <<scene, alive, jobFiles, failures>> /\ toClient' = AfterDelivery(c)
    BY <1>16 DEF ControllerRead, clientUnchanged, svrVars
  <2>2. c \notin Renderers /\ \A r \in Renderers \ {c} : toClient'[r] = toClient[r]
    BY <1>0, <1>16, <2>1 DEF AfterDelivery, TypeOK
  <2> QED
    BY <2>1, <2>2, CleanOthers
<1>17. ASSUME NEW c \in Clients, TakeSample(c) \/ TakeWriteImage(c) \/ GoIdle(c) PROVE CleanScenes'
  BY <1>1, <1>17 DEF TakeSample, TakeWriteImage, GoIdle, history
<1>18. CASE AcceptFails \/ UNCHANGED vars
  BY <1>1, <1>18 DEF AcceptFails, vars, svrVars, history
<1> QED
  BY <1>2, <1>3, <1>5, <1>7, <1>8, <1>11, <1>12, <1>14, <1>15, <1>16, <1>17, <1>18
     DEF Next, ServerStep, RequestRenderTask, RendererStep, ScriptFails

\* Invariant CleanScenes, whatever clients join, are lost and fail.
LEMMA CleanScenesHold == Spec => []CleanScenes
<1>1. Init => CleanScenes
  BY DEF Init, CleanScenes
<1>2. ServesFrontJob /\ CleanScenes /\ [Next]_vars => CleanScenes'
  BY CleanStep
<1> QED
  BY <1>1, <1>2, ServesFrontJobHolds, PTL DEF Spec

\* What CleanScenes is for.
LEMMA CleanStarts ==
  ASSUME ServesFrontJob, CleanScenes, NEW r \in Renderers,
         Delivered(r, "start_render_scene"), HasRenderer(r)
  PROVE  Failed(r, "cleanup", scene[r].file)
<1>1. toClient[r] \in Seq(ToClient) /\ toClient[r] # <<>> /\ r \in alive
  BY DEF ServesFrontJob, TypeOK, Delivered, Clients
<1>2. 1 \in DOMAIN toClient[r] /\ toClient[r][1] = Head(toClient[r])
  BY <1>1, TailOfSeq
<1>3. Starts(toClient[r][1])
  BY <1>2 DEF Delivered, Starts
<1>4. Clean(toClient[r], scene[r], Ready(r))
  BY <1>1 DEF CleanScenes, CleanAt
<1>5. scene[r] \in Ready(r)
  BY <1>2, <1>3, <1>4 DEF Clean
<1> QED
  BY <1>5 DEF Ready, HasRenderer

\* A client that is told to start a scene has cleaned up the one before, unless its cleanup
\* of it failed: in every order in which scenes end, clients join and scripts fail.
THEOREM StartsCleanHolds == Spec => []StartsClean
<1>1. ServesFrontJob /\ CleanScenes => StartsClean
  BY CleanStarts DEF StartsClean
<1> QED
  BY <1>1, CleanScenesHold, ServesFrontJobHolds, PTL

\* No script has failed without a fault: a client that finds a scene which was not cleaned
\* up where it is to start another has had a cleanup fail.
NoFailures == faults = 0 => failures = {}
LEMMA NoFailuresHolds == Spec => []NoFailures
<1>1. Init => NoFailures
  BY DEF Init, NoFailures
<1>2. ServesFrontJob /\ CleanScenes /\ NoFailures /\ [Next]_vars => NoFailures'
  <2> SUFFICES ASSUME ServesFrontJob, CleanScenes, NoFailures, [Next]_vars PROVE NoFailures'
    OBVIOUS
  <2>1. faults \in Nat
    BY DEF ServesFrontJob, TypeOK
  <2>2. CASE UNCHANGED <<faults, failures>>
    BY <2>2 DEF NoFailures
  <2>3. CASE faults' = faults + 1
    BY <2>1, <2>3 DEF NoFailures
  <2>4. ASSUME NEW r \in Renderers, StartSceneFails(r) PROVE NoFailures'
    <3>1. CASE HasRenderer(r)
      <4>1. failures # {}
        BY <2>4, <3>1, CleanStarts DEF StartSceneFails, Failed
      <4> QED
        BY <2>4, <3>1, <4>1 DEF StartSceneFails, NoFailures
    <3>2. CASE ~HasRenderer(r)
      BY <2>3, <2>4, <3>2 DEF StartSceneFails, Fault
    <3> QED
      BY <3>1, <3>2
  <2>5. ASSUME NEW r, RendererStep(r) PROVE NoFailures'
    BY <2>2, <2>5 DEF RendererStep, DoRenderCrop, DoStartFrame, DoEndFrame, DoStartRenderScene,
       DoEndRenderScene
  <2>6. ASSUME NEW r, TaskFails(r) \/ EndSceneFails(r) PROVE NoFailures'
    BY <2>2, <2>3, <2>6 DEF TaskFails, EndSceneFails, Fault
  <2>7. ASSUME NEW c, ServerStep(c) PROVE NoFailures'
    BY <2>2, <2>7 DEF ServerStep, RenderScene, TakeSample, TakeWriteImage, RequestRenderTask,
       GrantCropWindow, EndCurrentFrame, StartNextFrame, GoIdle, EndScene, history
  <2>8. ASSUME NEW c, Accept(c) \/ LoseClient(c) \/ DisconnectRenderNode(c) \/ ControllerRead(c)
        PROVE  NoFailures'
    BY <2>2, <2>3, <2>8 DEF Accept, LoseClient, DisconnectRenderNode, ControllerRead, history
  <2>9. CASE AcceptFails
    BY <2>3, <2>9 DEF AcceptFails
  <2>10. CASE UNCHANGED vars
    BY <2>2, <2>10 DEF vars, history
  <2> QED
    BY <2>4, <2>5, <2>6, <2>7, <2>8, <2>9, <2>10 DEF Next, ScriptFails
<1> QED
  BY <1>1, <1>2, CleanScenesHold, ServesFrontJobHolds, PTL DEF Spec

-----------------------------------------------------------------------------
(***************************************************************************)
(* The images on disk: none is blank, no frame of a scene that ended is    *)
(* missing, and the image of a frame that ended is final.                  *)
(***************************************************************************)
Name(f) == <<FrontFile, f>>

(***************************************************************************)
(* Filling is for one busy renderer with received messages ins, sent       *)
(* messages outs and status st, at the frame that has this film and whose  *)
(* image has this name; names are the images on disk.  The node ends its   *)
(* frame only when the film has samples and was written.                   *)
(***************************************************************************)
Fits(m, st, film) ==
  /\ m.kind = "start_frame" => st = "START_FRAME"
  /\ m.kind = "render_crop" => st = "RENDER_CROP" /\ (m.win.place \in Windows \/ film # {})
  /\ m.kind = "end_frame" => st = "END_FRAME"

Filling(ins, outs, st, film, name, names) ==
  /\ st = "END_FRAME" => film # {} /\ name \in names
  /\ \A i \in DOMAIN ins :
       /\ ins[i].kind = "add_sample" => film # {} \/ ins[i].place \in Windows
       /\ ins[i].kind = "write_image" => film # {} \/ (i # 1 /\ ins[i - 1].kind = "add_sample")
  /\ st = "RENDER_CROP" /\ ins # <<>> =>
       \/ film # {} /\ name \in names
       \/ Len(ins) # 1 /\ ins[Len(ins) - 1].kind = "write_image"
  /\ outs # <<>> => Fits(outs[Len(outs)], st, film)

FillingAt(r) ==
  Filling(toServer[r], toClient[r], status[r], films[frame[r]], Name(frame[r]), DOMAIN disk)

\* The inductive invariant: frames before next_frame_ have samples and are on disk, and
\* nodes are on their way to the same at their frame, which end_frame has not passed.
NotBlank == \A n \in DOMAIN disk : disk[n] # {}
FilledBefore == \A f \in DOMAIN films : f < nextFrame => films[f] # {} /\ Name(f) \in DOMAIN disk
NodesFill == \A r \in Renderers : Busy(r) => FillingAt(r)
NotBehind == \A r \in Renderers : Busy(r) => curFrame <= frame[r]
FinishedOnDisk ==
  \A i \in DOMAIN finished : \A f \in FramesOf(finished[i]) : <<finished[i].file, f>> \in DOMAIN disk
ImageInv == NotBlank /\ FilledBefore /\ NodesFill /\ NotBehind /\ FinishedOnDisk

-----------------------------------------------------------------------------
\* A film that has more samples and a disk that has more images keep it.
LEMMA FillingGrows ==
  ASSUME NEW ins, NEW outs, NEW st, NEW film, NEW name, NEW names, NEW film2, NEW names2,
         Filling(ins, outs, st, film, name, names), film \subseteq film2, names \subseteq names2
  PROVE  Filling(ins, outs, st, film2, name, names2)
BY DEF Filling, Fits

\* The connection to the node breaks.
LEMMA FillingLost ==
  ASSUME NEW ins, NEW outs, NEW st, NEW film, NEW name, NEW names,
         Filling(ins, outs, st, film, name, names)
  PROVE  Filling(ins, <<>>, st, film, name, names)
BY DEF Filling

\* The server takes a sample.
LEMMA FillingSample ==
  ASSUME NEW ins \in Seq(ToServer), ins # <<>>, Head(ins).kind = "add_sample", NEW outs, NEW st,
         NEW film, NEW name, NEW names, Filling(ins, outs, st, film, name, names),
         NEW film2, film \subseteq film2, film2 # {}
  PROVE  Filling(Tail(ins), outs, st, film2, name, names)
<1> DEFINE t == Tail(ins)
<1>1. /\ t \in Seq(ToServer) /\ Head(ins) = ins[1] /\ Len(t) = Len(ins) - 1
      /\ \A i \in DOMAIN t : t[i] = ins[i + 1]
  BY TailOfSeq
<1> HIDE DEF t
<1>2. ASSUME st = "RENDER_CROP", t # <<>>
      PROVE  (film2 # {} /\ name \in names) \/ (Len(t) # 1 /\ t[Len(t) - 1].kind = "write_image")
  <2>1. (film # {} /\ name \in names) \/ (Len(ins) # 1 /\ ins[Len(ins) - 1].kind = "write_image")
    BY <1>2 DEF Filling
  <2>2. Len(t) \in Nat /\ Len(t) # 0 /\ DOMAIN t = 1 .. Len(t)
    BY <1>1, <1>2
  <2>3. ASSUME Len(ins) # 1, ins[Len(ins) - 1].kind = "write_image"
        PROVE  Len(t) # 1 /\ t[Len(t) - 1].kind = "write_image"
    <3>1. Len(ins) - 1 # 1
      BY <1>1, <2>3
    <3>2. Len(t) - 1 \in DOMAIN t /\ (Len(t) - 1) + 1 = Len(ins) - 1
      BY <1>1, <2>2, <3>1
    <3> QED
      BY <1>1, <2>3, <3>1, <3>2
  <2> QED
    BY <2>1, <2>3
<1>3. Filling(t, outs, st, film2, name, names)
  BY <1>2 DEF Filling, Fits
<1> QED
  BY <1>3 DEF t

\* The server writes the image of the frame, which has samples.
LEMMA FillingWrite ==
  ASSUME NEW ins \in Seq(ToServer), ins # <<>>, Head(ins).kind = "write_image", NEW outs, NEW st,
         NEW film, NEW name, NEW names, Filling(ins, outs, st, film, name, names)
  PROVE  /\ film # {}
         /\ \A names2 : name \in names2 => Filling(Tail(ins), outs, st, film, name, names2)
<1>1. 1 \in DOMAIN ins /\ ins[1] = Head(ins)
  OBVIOUS
<1>2. film # {}
  BY <1>1 DEF Filling
<1> QED
  BY <1>2 DEF Filling

\* A node that asks for a task after a window has its frame on disk.
LEMMA FillingRequest ==
  ASSUME NEW ins \in Seq(ToServer), Len(ins) = 1, ins # <<>>, NEW outs, NEW st,
         NEW film, NEW name, NEW names, Filling(ins, outs, st, film, name, names)
  PROVE  st \in {"RENDER_CROP", "END_FRAME"} => film # {} /\ name \in names
BY DEF Filling

\* The request is the last message on its way from the node.
LEMMA RequestIsLast ==
  ASSUME ServesFrontJob, NEW c \in Clients, Received(c, "request_render_task")
  PROVE  Len(toServer[c]) = 1 /\ toServer[c] # <<>> /\ toServer[c] \in Seq(ToServer)
<1>1. c \in Renderers
  BY RequestFacts
<1>2. toServer[c] # <<>> /\ toServer[c] \in Seq(ToServer) /\ 1 \in DOMAIN toServer[c]
      /\ toServer[c][1].kind = "request_render_task"
  BY DEF Received, ServesFrontJob, TypeOK
<1>3. \A i \in DOMAIN toServer[c] :
         (toServer[c][i].kind = "request_render_task") <=> (i = Len(toServer[c]))
  BY <1>1 DEF ServesFrontJob, OneTask
<1> QED
  BY <1>2, <1>3

\* The server sends the node its next task.
LEMMA FillingSend ==
  ASSUME NEW outs \in Seq(ToClient), NEW m \in ToClient, NEW st, NEW film, NEW name, NEW names,
         Fits(m, st, film), st = "END_FRAME" => film # {} /\ name \in names
  PROVE  Filling(<<>>, Append(outs, m), st, film, name, names)
<1>1. Append(outs, m)[Len(Append(outs, m))] = m
  OBVIOUS
<1> QED
  BY <1>1 DEF Filling

\* The node reads a message that is not its last.
LEMMA FillingDeliver ==
  ASSUME NEW outs \in Seq(ToClient), outs # <<>>, NEW ins, NEW st, NEW film, NEW name, NEW names,
         Filling(ins, outs, st, film, name, names)
  PROVE  Filling(ins, Tail(outs), st, film, name, names)
<1> DEFINE t == Tail(outs)
<1>1. /\ t \in Seq(ToClient) /\ Len(t) = Len(outs) - 1
      /\ \A i \in DOMAIN t : t[i] = outs[i + 1]
  BY TailOfSeq
<1> HIDE DEF t
<1>2. t # <<>> => t[Len(t)] = outs[Len(outs)]
  <2> SUFFICES ASSUME t # <<>> PROVE t[Len(t)] = outs[Len(outs)]
    OBVIOUS
  <2>1. Len(t) \in DOMAIN t /\ Len(t) + 1 = Len(outs)
    BY <1>1
  <2> QED
    BY <1>1, <2>1
<1>3. Filling(ins, t, st, film, name, names)
  BY <1>2 DEF Filling
<1> QED
  BY <1>3 DEF t

\* The node answers its task.
LEMMA FillingAnswer ==
  ASSUME NEW outs \in Seq(ToClient), Len(outs) = 1, outs # <<>>, NEW st, NEW film, NEW name, NEW names,
         Filling(<<>>, outs, st, film, name, names)
  PROVE  /\ outs[1].kind \in {"start_frame", "end_frame"} =>
              Filling(<<>> \o <<RequestTask>>, <<>>, st, film, name, names)
         /\ outs[1].kind = "render_crop" => \A sc :
              Filling(<<>> \o <<AddSample(sc, outs[1].win.place), WriteImage, RequestTask>>, <<>>,
                      st, film, name, names)
<1>1. Fits(outs[1], st, film) /\ (st = "END_FRAME" => film # {} /\ name \in names)
  BY DEF Filling
<1>2. ASSUME outs[1].kind \in {"start_frame", "end_frame"}
      PROVE  Filling(<<>> \o <<RequestTask>>, <<>>, st, film, name, names)
  <2>1. st # "RENDER_CROP"
    BY <1>1, <1>2 DEF Fits
  <2> QED
    BY <1>1, <2>1 DEF Filling, RequestTask
<1>3. ASSUME outs[1].kind = "render_crop", NEW sc
      PROVE  Filling(<<>> \o <<AddSample(sc, outs[1].win.place), WriteImage, RequestTask>>, <<>>,
                     st, film, name, names)
  <2> DEFINE p == outs[1].win.place
             a == AddSample(sc, p)
             w == WriteImage
             q == RequestTask
             t == <<>> \o <<a, w, q>>
  <2>1. /\ a.kind = "add_sample" /\ w.kind = "write_image" /\ q.kind = "request_render_task"
        /\ a.place = p
    BY DEF AddSample, WriteImage, RequestTask
  <2>2. film # {} \/ p \in Windows
    BY <1>1, <1>3 DEF Fits
  <2> HIDE DEF a, w, q, p
  <2>3. Len(t) = 3 /\ t[1] = a /\ t[2] = w /\ t[3] = q
    OBVIOUS
  <2>4. t \in Seq({a, w, q}) /\ \A i \in DOMAIN t : i \in {1, 2, 3}
    OBVIOUS
  <2>5. st # "END_FRAME"
    BY <1>1, <1>3 DEF Fits
  <2> HIDE DEF t
  <2>6. Filling(t, <<>>, st, film, name, names)
    BY <2>1, <2>2, <2>3, <2>4, <2>5 DEF Filling
  <2> QED
    BY <2>6 DEF t, a, w, q, p
<1> QED
  BY <1>2, <1>3

-----------------------------------------------------------------------------
\* What a write leaves on disk.
LEMMA WrittenFacts ==
  ASSUME NEW shown, NEW f \in DOMAIN films, disk' = Written(shown, f)
  PROVE  /\ DOMAIN disk' = DOMAIN disk \cup {Name(f)}
         /\ disk'[Name(f)] = shown[f]
         /\ \A n \in DOMAIN disk : n # Name(f) => disk'[n] = disk[n]
BY DEF Written, Name, FrontFile

\* A step that concerns one client lets the others go on to fill their frames.
LEMMA FillingOthers ==
  ASSUME NodesFill, NEW c, UNCHANGED FrontFile, DOMAIN disk \subseteq DOMAIN disk',
         \A r \in Renderers \ {c} :
           /\ toServer'[r] = toServer[r] /\ toClient'[r] = toClient[r]
           /\ Busy(r)' => Busy(r) /\ frame'[r] = frame[r] /\ status'[r] = status[r]
           /\ Busy(r)' => films[frame[r]] \subseteq films'[frame[r]],
         c \in Renderers /\ Busy(c)' => FillingAt(c)'
  PROVE  NodesFill'
<1> SUFFICES ASSUME NEW r \in Renderers, Busy(r)' PROVE FillingAt(r)'
  BY DEF NodesFill
<1>1. CASE r = c
  BY <1>1
<1>2. CASE r # c
  <2>1. Busy(r) /\ frame'[r] = frame[r] /\ status'[r] = status[r] /\ toServer'[r] = toServer[r]
        /\ toClient'[r] = toClient[r] /\ films[frame[r]] \subseteq films'[frame[r]]
    BY <1>2
  <2>2. Filling(toServer[r], toClient[r], status[r], films[frame[r]], Name(frame[r]), DOMAIN disk)
    BY <2>1 DEF NodesFill, FillingAt
  <2>3. Filling(toServer[r], toClient[r], status[r], films'[frame[r]], Name(frame[r]), DOMAIN disk')
    BY <2>1, <2>2, FillingGrows
  <2> QED
    BY <2>1, <2>3 DEF FillingAt, Name
<1> QED
  BY <1>1, <1>2

\* end_frame writes no blank image, and loses none.
LEMMA EndFrameImages ==
  ASSUME ServesFrontJob, ImageInv, NEW c \in Clients, LeavesFrame(c), EndFrameStep(c)
  PROVE  /\ DOMAIN disk \subseteq DOMAIN disk' /\ NotBlank'
         /\ \A f \in DOMAIN films : f < NextAfter(c) => films[f] # {} /\ Name(f) \in DOMAIN disk
<1>1. Received(c, "request_render_task") /\ status[c] = "END_FRAME"
  BY DEF LeavesFrame
<1>2. /\ c \in Renderers /\ c \in connections /\ Busy(c) /\ frame[c] \in DOMAIN films
  BY <1>1, RequestFacts DEF Busy
<1>3. films[frame[c]] # {} /\ Name(frame[c]) \in DOMAIN disk
  BY <1>1, <1>2 DEF ImageInv, NodesFill, FillingAt, Filling
<1>4. nextFrame \in Int /\ \A f \in DOMAIN films : f \in Int
  BY DEF ServesFrontJob, TypeOK
<1>5. \A f \in DOMAIN films : f < NextAfter(c) => films[f] # {} /\ Name(f) \in DOMAIN disk
  <2> SUFFICES ASSUME NEW f \in DOMAIN films, f < NextAfter(c)
               PROVE  films[f] # {} /\ Name(f) \in DOMAIN disk
    OBVIOUS
  <2>1. f < nextFrame \/ f = frame[c]
    BY <1>4 DEF NextAfter
  <2> QED
    BY <1>3, <2>1 DEF ImageInv, FilledBefore
<1>6. CASE FrameAllDone(c)
  <2>1. disk' = Written(films, curFrame) /\ curFrame < NextAfter(c)
    BY <1>1, <1>6, EndFrameFacts DEF EndFrameStep
  <2>2. curFrame \in DOMAIN films
    <3>1. /\ jobFiles # <<>> /\ Head(jobFiles).begin \in Int /\ Head(jobFiles).end \in Int
          /\ NextAfter(c) <= Head(jobFiles).end /\ NextAfter(c) \in Int
      BY <1>1, RequestFacts, EndFrameFacts
    <3>2. DOMAIN films = FramesOf(Head(jobFiles))
      BY <1>2 DEF ServesFrontJob, FilmsOfFrontJob
    <3>3. Head(jobFiles).begin <= curFrame /\ curFrame \in Int
      BY <3>1 DEF ServesFrontJob, FramesInOrder, TypeOK
    <3> QED
      BY <2>1, <3>1, <3>2, <3>3 DEF FramesOf
  <2>3. films[curFrame] # {}
    BY <1>5, <2>1, <2>2
  <2>4. /\ DOMAIN disk' = DOMAIN disk \cup {Name(curFrame)}
        /\ disk'[Name(curFrame)] = films[curFrame]
        /\ \A n \in DOMAIN disk : n # Name(curFrame) => disk'[n] = disk[n]
    BY <2>1, <2>2, WrittenFacts, Zenon
  <2> QED
    BY <1>5, <2>3, <2>4 DEF ImageInv, NotBlank
<1>7. CASE ~FrameAllDone(c)
  BY <1>5, <1>7 DEF EndFrameStep, ImageInv, NotBlank
<1> QED
  BY <1>6, <1>7

\* do_render_scene begins with films that no node is behind, when no renderer is busy.
LEMMA DoRenderSceneImages ==
  ASSUME TypeOK, NEW q \in Seq(Job), NEW cur, NEW nxt, NEW tp, NEW fr, NEW st,
         NEW out \in [Clients -> Seq(ToClient)],
         DoRenderScene(q, cur, nxt, tp, fr, st, out), UNCHANGED connections,
         \A r \in Renderers : r \in connections => st[r] = "IDLE" /\ toServer'[r] = <<>>
  PROVE  FilledBefore' /\ NodesFill' /\ NotBehind'
<1> DEFINE job == Head(q)
           started == q # <<>> /\ job.file \notin BrokenStartup
           woken == {r \in connections : started /\ tp[r] # "CONTROLLER" /\ st[r] = "IDLE"}
           a == StartRenderScene(job.file)
           b == StartFrame(job.begin)
<1>1. /\ frame' = [r \in Clients |-> IF r \in woken THEN job.begin ELSE fr[r]]
      /\ status' = [r \in Clients |-> IF r \in woken THEN "START_FRAME" ELSE st[r]]
      /\ toClient' = [r \in Clients |-> IF r \in woken THEN out[r] \o <<a, b>> ELSE out[r]]
      /\ curFrame' = IF q = <<>> THEN cur ELSE job.begin
      /\ nextFrame' = IF q = <<>> THEN nxt ELSE job.begin
      /\ films' = IF started THEN [f \in FramesOf(job) |-> {}] ELSE NoFilms
  BY DEF DoRenderScene
<1>2. q # <<>> => job \in Job /\ job.begin \in Int /\ job.end \in Int /\ job.file \in Files
  <2>1. q # <<>> => job \in Job
    OBVIOUS
  <2> QED
    BY <2>1 DEF Job
<1>3. FilledBefore'
  <2>1. CASE started
    BY <1>1, <1>2, <2>1 DEF FilledBefore, FramesOf
  <2>2. CASE ~started
    BY <1>1, <2>2 DEF FilledBefore, NoFilms
  <2> QED
    BY <2>1, <2>2
<1>4. ASSUME NEW r \in Renderers, Busy(r)'
      PROVE  FillingAt(r)' /\ curFrame' <= frame'[r]
  <2>1. r \in Clients /\ r \in connections /\ status'[r] # "IDLE"
    BY <1>4 DEF Clients, Busy
  <2>2. r \in woken
    BY <1>1, <2>1
  <2>3. a \in ToClient /\ b \in ToClient /\ b.kind = "start_frame"
    BY <1>2, <2>2, MessageTypes DEF StartFrame
  <2>4. frame'[r] = job.begin /\ status'[r] = "START_FRAME" /\ toServer'[r] = <<>>
        /\ toClient'[r] = out[r] \o <<a, b>> /\ curFrame' = job.begin
    BY <1>1, <2>1, <2>2
  <2> HIDE DEF a, b
  <2>5. out[r] \o <<a, b>> = Append(Append(out[r], a), b) /\ Append(out[r], a) \in Seq(ToClient)
    BY <2>1, <2>3
  <2>6. Fits(b, "START_FRAME", films'[job.begin])
    BY <2>3 DEF Fits
  <2>7. FillingAt(r)'
    BY <2>3, <2>4, <2>5, <2>6, FillingSend DEF FillingAt
  <2> QED
    BY <1>2, <2>2, <2>4, <2>7
<1> QED
  BY <1>3, <1>4 DEF NodesFill, NotBehind

\* A task is all there is under way to or from a client that reads it.
LEMMA TaskFacts ==
  ASSUME ServesFrontJob, NEW c \in Renderers,
         Delivered(c, "render_crop") \/ Delivered(c, "start_frame") \/ Delivered(c, "end_frame")
  PROVE  /\ c \in Clients /\ Busy(c) /\ toServer[c] = <<>> /\ toClient[c] \in Seq(ToClient)
         /\ toClient[c] # <<>> /\ Len(toClient[c]) = 1 /\ Tail(toClient[c]) = <<>>
         /\ Head(toClient[c]) = toClient[c][1]
<1> USE DEF ServesFrontJob
<1>1. /\ c \in Clients /\ c \in connections /\ toClient[c] # <<>> /\ toClient[c] \in Seq(ToClient)
      /\ Task(Head(toClient[c])) /\ Head(toClient[c]) = toClient[c][1] /\ 1 \in DOMAIN toClient[c]
  BY DEF Delivered, TypeOK, Task, Roles, Clients
<1>2. \A i \in DOMAIN toClient[c] :
         Task(toClient[c][i]) => /\ i = Len(toClient[c]) /\ toServer[c] = <<>>
                                 /\ (c \in connections => status[c] # "IDLE")
  BY DEF OneTask
<1>3. 1 = Len(toClient[c]) /\ toServer[c] = <<>> /\ status[c] # "IDLE"
  BY <1>1, <1>2
<1>4. Tail(toClient[c]) = <<>>
  BY <1>1, <1>3, TailOfOne
<1> QED
  BY <1>1, <1>3, <1>4 DEF Busy

\* Every step keeps ImageInv.
LEMMA ImageStep ==
  ASSUME ServesFrontJob, ImageInv, [Next]_vars
  PROVE  ImageInv'
<1> USE DEF ServesFrontJob
<1>0. Renderers \subseteq Clients /\ \A r \in Renderers : r \notin Controllers
  BY ClientsAssumption DEF Clients
<1>1. ASSUME UNCHANGED <<nextFrame, jobFiles, finished>>, DOMAIN films' = DOMAIN films,
             \A f \in DOMAIN films : films[f] \subseteq films'[f], DOMAIN disk \subseteq DOMAIN disk'
      PROVE  FilledBefore' /\ FinishedOnDisk'
  BY <1>1 DEF ImageInv, FilledBefore, FinishedOnDisk, Name, FrontFile
<1>2. ASSUME NEW c, UNCHANGED <<curFrame, nextFrame, jobFiles, finished, films, disk>>,
             \A r \in Renderers \ {c} :
               /\ toServer'[r] = toServer[r] /\ toClient'[r] = toClient[r]
               /\ Busy(r)' => Busy(r) /\ frame'[r] = frame[r] /\ status'[r] = status[r],
             c \in Renderers /\ Busy(c)' => FillingAt(c)' /\ curFrame <= frame'[c]
      PROVE  ImageInv'
  <2>1. FilledBefore' /\ FinishedOnDisk' /\ NotBlank'
    BY <1>1, <1>2 DEF ImageInv, NotBlank
  <2>2. NodesFill'
    BY <1>2, FillingOthers DEF FrontFile, ImageInv
  <2>3. NotBehind'
    BY <1>2 DEF ImageInv, NotBehind
  <2> QED
    BY <2>1, <2>2, <2>3 DEF ImageInv
<1>3. ASSUME NEW c \in Clients, Accept(c) PROVE ImageInv'
  <2>1. ~Busy(c)' /\ UNCHANGED <<curFrame, nextFrame, jobFiles, finished, films, disk>>
    BY <1>3 DEF Accept, Busy, TypeOK, filmVars, history
  <2>2. \A r \in Renderers \ {c} :
           /\ toServer'[r] = toServer[r] /\ toClient'[r] = toClient[r]
           /\ Busy(r)' => Busy(r) /\ frame'[r] = frame[r] /\ status'[r] = status[r]
    BY <1>0, <1>3 DEF Accept, Busy, TypeOK
  <2> QED
    BY <1>2, <2>1, <2>2
<1>4. ASSUME NEW c \in Clients, LoseClient(c) PROVE ImageInv'
  <2>1. /\ UNCHANGED <<toServer, connections, status, frame>>
        /\ UNCHANGED <<curFrame, nextFrame, jobFiles, finished, films, disk>>
        /\ toClient' = [toClient EXCEPT ![c] = <<>>]
    BY <1>4 DEF LoseClient, svrVars, nodeVars, filmVars
  <2>2. c \in Renderers /\ Busy(c) => FillingAt(c)' /\ curFrame <= frame[c]
    <3> SUFFICES ASSUME c \in Renderers, Busy(c) PROVE FillingAt(c)' /\ curFrame <= frame[c]
      OBVIOUS
    <3>1. Filling(toServer[c], <<>>, status[c], films[frame[c]], Name(frame[c]), DOMAIN disk)
      BY FillingLost DEF ImageInv, NodesFill, FillingAt
    <3>2. toClient'[c] = <<>> /\ Name(frame[c])' = Name(frame[c])
      BY <2>1 DEF TypeOK, Name, FrontFile
    <3> QED
      BY <2>1, <3>1, <3>2 DEF FillingAt, Name, FrontFile, ImageInv, NotBehind
  <2> QED
    BY <1>0, <1>2, <2>1, <2>2 DEF TypeOK, Busy
<1>5. ASSUME NEW c \in Clients, DisconnectRenderNode(c) PROVE ImageInv'
  <2>1. ~Busy(c)' /\ UNCHANGED <<status, frame>> /\ connections' = connections \ {c}
        /\ UNCHANGED <<curFrame, nextFrame, jobFiles, finished, films, disk>>
        /\ toClient' = [toClient EXCEPT ![c] = <<>>] /\ toServer' = [toServer EXCEPT ![c] = <<>>]
    BY <1>5 DEF DisconnectRenderNode, nodeVars, Busy, filmVars, history
  <2> QED
    BY <1>0, <1>2, <2>1 DEF TypeOK, Busy
<1>6. ASSUME NEW c \in Clients, RenderScene(c) PROVE ImageInv'
  <2> DEFINE job == Head(toServer[c]).job
             tp == [type EXCEPT ![c] = "CONTROLLER"]
  <2>1. Received(c, "render_scene") /\ toServer' = AfterReceive(c) /\ UNCHANGED <<connections, disk, finished>>
    BY <1>6 DEF RenderScene, history
  <2>2. job \in Job /\ toServer[c] # <<>>
    BY <2>1, ReceiveType, MessageFields DEF Received
  <2>3. c \notin Renderers
    <3>1. 1 \in DOMAIN toServer[c] /\ toServer[c][1].kind = "render_scene"
      BY <2>1 DEF Received, TypeOK
    <3> QED
      BY <3>1 DEF Roles
  <2>4. \A r \in Renderers : toServer'[r] = toServer[r]
    BY <1>0, <2>1, <2>3 DEF AfterReceive, TypeOK
  <2>5. NotBlank' /\ FinishedOnDisk'
    BY <2>1 DEF ImageInv, NotBlank, FinishedOnDisk
  <2>6. CASE jobFiles = <<>> /\ DoRenderScene(<<job>>, curFrame, nextFrame, tp, frame, status, toClient)
    <3>1. \A r \in Renderers : r \in connections => status[r] = "IDLE"
      BY <2>6 DEF BusyInFrontJob, Busy, Roles
    <3>2. \A r \in Renderers : r \in connections => toServer'[r] = <<>>
      BY <2>4, <3>1 DEF OneTask
    <3>3. <<job>> \in Seq(Job) /\ toClient \in [Clients -> Seq(ToClient)]
      BY <2>2 DEF TypeOK
    <3> HIDE DEF job, tp
    <3>4. FilledBefore' /\ NodesFill' /\ NotBehind'
      BY <2>1, <2>6, <3>1, <3>2, <3>3, DoRenderSceneImages
    <3> QED
      BY <2>5, <3>4 DEF ImageInv
  <2>7. CASE /\ UNCHANGED <<curFrame, nextFrame, films, frame, status, toClient>>
             /\ jobFiles' = jobFiles \/ (jobFiles # <<>> /\ jobFiles' = Append(jobFiles, job))
    <3>1. \A s \in Seq(Job), j \in Job : s # <<>> => Head(Append(s, j)) = Head(s)
      OBVIOUS
    <3>2. jobFiles \in Seq(Job)
      BY DEF TypeOK
    <3> HIDE DEF job
    <3>3. Head(jobFiles') = Head(jobFiles)
      BY <2>2, <2>7, <3>1, <3>2, Zenon
    <3>4. UNCHANGED FrontFile
      BY <3>3 DEF FrontFile
    <3> QED
      BY <2>1, <2>4, <2>5, <2>7, <3>4 DEF ImageInv, FilledBefore, NodesFill, NotBehind, FillingAt, Busy, Name
  <2>8. \/ jobFiles = <<>> /\ DoRenderScene(<<job>>, curFrame, nextFrame, tp, frame, status, toClient)
        \/ /\ UNCHANGED <<curFrame, nextFrame, films, frame, status, toClient>>
           /\ jobFiles' = jobFiles \/ (jobFiles # <<>> /\ jobFiles' = Append(jobFiles, job))
    BY <1>6 DEF RenderScene
  <2> HIDE DEF job, tp
  <2> QED
    BY <2>6, <2>7, <2>8
<1>7. ASSUME NEW c \in Clients, TakeSample(c) PROVE ImageInv'
  <2>1. /\ Received(c, "add_sample") /\ toServer' = AfterReceive(c)
        /\ films' = [f \in DOMAIN films |->
                      IF f = frame[c] THEN films[f] \cup ({Head(toServer[c]).place} \cap Windows)
                      ELSE films[f]]
        /\ disk' = disk \/ disk' = Written(films', frame[c])
        /\ UNCHANGED <<connections, curFrame, nextFrame, jobFiles, finished, status, frame, toClient>>
    BY <1>7 DEF TakeSample, Sampled, nodeVars, history
  <2>2. DOMAIN films' = DOMAIN films /\ \A f \in DOMAIN films : films[f] \subseteq films'[f]
    BY <2>1
  <2>3. /\ toServer[c] \in Seq(ToServer) /\ toServer[c] # <<>> /\ Head(toServer[c]).kind = "add_sample"
        /\ toServer'[c] = Tail(toServer[c])
        /\ 1 \in DOMAIN toServer[c] /\ Head(toServer[c]) = toServer[c][1]
    BY <2>1 DEF Received, AfterReceive, TypeOK
  <2>4. \A r \in Renderers : Busy(r) => frame[r] \in DOMAIN films
    BY DEF BusyInFrontJob, Roles, Busy
  <2>5. c \in Renderers /\ Busy(c) /\ frame[c] \in DOMAIN films
    <3>1. c \in Renderers
      BY <2>3 DEF Roles, Clients
    <3> QED
      BY <2>3, <2>4, <3>1 DEF OneTask, Busy
  <2>6. Filling(toServer[c], toClient[c], status[c], films[frame[c]], Name(frame[c]), DOMAIN disk)
    BY <2>5 DEF ImageInv, NodesFill, FillingAt
  <2>7. films[frame[c]] \subseteq films'[frame[c]] /\ films'[frame[c]] # {}
    <3>1. films[frame[c]] # {} \/ Head(toServer[c]).place \in Windows
      BY <2>3, <2>6 DEF Filling
    <3> QED
      BY <2>1, <2>5, <3>1
  <2>8. /\ DOMAIN disk \subseteq DOMAIN disk'
        /\ \A n \in DOMAIN disk' : disk'[n] = films'[frame[c]] \/ (n \in DOMAIN disk /\ disk'[n] = disk[n])
    <3>1. CASE disk' = Written(films', frame[c])
      <4>1. /\ DOMAIN disk' = DOMAIN disk \cup {Name(frame[c])}
            /\ disk'[Name(frame[c])] = films'[frame[c]]
            /\ \A n \in DOMAIN disk : n # Name(frame[c]) => disk'[n] = disk[n]
        BY <2>5, <3>1, WrittenFacts, Zenon
      <4> QED
        BY <4>1
    <3> QED
      BY <2>1, <3>1
  <2>9. FilledBefore' /\ FinishedOnDisk'
    BY <1>1, <2>1, <2>2, <2>8
  <2>10. NotBlank' /\ NotBehind'
    BY <2>1, <2>7, <2>8 DEF ImageInv, NotBlank, NotBehind, Busy
  <2>11. FillingAt(c)'
    <3>1. Filling(Tail(toServer[c]), toClient[c], status[c], films'[frame[c]], Name(frame[c]), DOMAIN disk)
      BY <2>3, <2>6, <2>7, FillingSample
    <3>2. Filling(Tail(toServer[c]), toClient[c], status[c], films'[frame[c]], Name(frame[c]), DOMAIN disk')
      BY <2>8, <3>1, FillingGrows
    <3> QED
      BY <2>1, <2>3, <3>2 DEF FillingAt, Name, FrontFile
  <2>12. \A r \in Renderers \ {c} : toServer'[r] = toServer[r]
    BY <1>0, <2>1 DEF AfterReceive, TypeOK
  <2>13. NodesFill'
    BY <2>1, <2>2, <2>4, <2>8, <2>11, <2>12, FillingOthers DEF ImageInv, Busy, FrontFile
  <2> QED
    BY <2>9, <2>10, <2>13 DEF ImageInv
<1>8. ASSUME NEW c \in Clients, TakeWriteImage(c) PROVE ImageInv'
  <2>1. /\ Received(c, "write_image") /\ toServer' = AfterReceive(c) /\ disk' = Written(films, frame[c])
        /\ UNCHANGED <<connections, curFrame, nextFrame, jobFiles, films, finished, status, frame, toClient>>
    BY <1>8 DEF TakeWriteImage, nodeVars, history
  <2>2. toServer[c] \in Seq(ToServer) /\ toServer[c] # <<>> /\ Head(toServer[c]).kind = "write_image"
        /\ toServer'[c] = Tail(toServer[c])
    BY <2>1 DEF Received, AfterReceive, TypeOK
  <2>3. c \in Renderers /\ Busy(c) /\ frame[c] \in DOMAIN films
    <3>1. 1 \in DOMAIN toServer[c] /\ toServer[c][1].kind # "render_scene"
      BY <2>2
    <3>2. c \in Renderers
      BY <3>1 DEF Roles, Clients
    <3> QED
      BY <2>2, <3>2 DEF OneTask, Busy, BusyInFrontJob, Roles
  <2>4. Filling(toServer[c], toClient[c], status[c], films[frame[c]], Name(frame[c]), DOMAIN disk)
    BY <2>3 DEF ImageInv, NodesFill, FillingAt
  <2>5. films[frame[c]] # {} /\ \A names : Name(frame[c]) \in names =>
          Filling(Tail(toServer[c]), toClient[c], status[c], films[frame[c]], Name(frame[c]), names)
    BY <2>2, <2>4, FillingWrite
  <2>6. DOMAIN disk' = DOMAIN disk \cup {Name(frame[c])}
        /\ \A n \in DOMAIN disk' : disk'[n] = films[frame[c]] \/ (n \in DOMAIN disk /\ disk'[n] = disk[n])
    <3>1. /\ DOMAIN disk' = DOMAIN disk \cup {Name(frame[c])}
          /\ disk'[Name(frame[c])] = films[frame[c]]
          /\ \A n \in DOMAIN disk : n # Name(frame[c]) => disk'[n] = disk[n]
      BY <2>1, <2>3, WrittenFacts, Zenon
    <3> QED
      BY <3>1
  <2>7. FillingAt(c)'
    BY <2>1, <2>2, <2>5, <2>6 DEF FillingAt, Name, FrontFile
  <2>8. NotBlank' /\ NotBehind'
    BY <2>1, <2>5, <2>6 DEF ImageInv, NotBlank, NotBehind, Busy
  <2>9. FilledBefore' /\ FinishedOnDisk'
    BY <1>1, <2>1, <2>6
  <2>10. \A r \in Renderers \ {c} : toServer'[r] = toServer[r]
    BY <1>0, <2>1 DEF AfterReceive, TypeOK
  <2>11. NodesFill'
    BY <2>1, <2>6, <2>7, <2>10, FillingOthers DEF ImageInv, Busy, FrontFile
  <2> QED
    BY <2>8, <2>9, <2>11 DEF ImageInv
<1>9. ASSUME NEW c \in Clients, GrantCropWindow(c) \/ EndCurrentFrame(c) PROVE ImageInv'
  <2>1. /\ Received(c, "request_render_task") /\ toServer' = AfterReceive(c)
        /\ UNCHANGED <<connections, curFrame, nextFrame, jobFiles, films, disk, finished, frame>>
        /\ \A r \in Clients \ {c} : status'[r] = status[r]
    BY <1>9 DEF GrantCropWindow, EndCurrentFrame, svrVars, filmVars, history, TypeOK
  <2>2. c \in Renderers /\ Busy(c) /\ frame[c] \in DOMAIN films /\ frame[c] <= nextFrame
        /\ toServer'[c] = <<>> /\ status[c] # "IDLE"
    BY <2>1, RequestFacts DEF Busy
  <2>3. Filling(toServer[c], toClient[c], status[c], films[frame[c]], Name(frame[c]), DOMAIN disk)
    BY <2>2 DEF ImageInv, NodesFill, FillingAt
  <2>4. status[c] \in {"RENDER_CROP", "END_FRAME"} =>
          films[frame[c]] # {} /\ Name(frame[c]) \in DOMAIN disk
    BY <2>1, <2>3, RequestIsLast, FillingRequest
  <2>5. /\ toClient[c] \in Seq(ToClient) /\ status[c] \in RenderNodeStatus
        /\ frame[c] \in Int /\ nextFrame \in Int
    BY DEF TypeOK
  <2>6. ASSUME NEW m \in ToClient, NEW st, toClient' = Send(c, m), status' = [status EXCEPT ![c] = st],
               Fits(m, st, films[frame[c]]),
               st = "END_FRAME" => films[frame[c]] # {} /\ Name(frame[c]) \in DOMAIN disk
        PROVE  ImageInv'
    <3>1. Filling(<<>>, Append(toClient[c], m), st, films[frame[c]], Name(frame[c]), DOMAIN disk)
      BY <2>5, <2>6, FillingSend
    <3>2. toClient'[c] = Append(toClient[c], m) /\ status'[c] = st
      BY <2>6 DEF Send, TypeOK
    <3>3. FillingAt(c)'
      BY <2>1, <2>2, <3>1, <3>2 DEF FillingAt, Name, FrontFile
    <3>4. curFrame <= frame'[c]
      BY <2>1, <2>2 DEF ImageInv, NotBehind
    <3>5. \A r \in Renderers \ {c} :
             /\ toServer'[r] = toServer[r] /\ toClient'[r] = toClient[r]
             /\ Busy(r)' => Busy(r) /\ frame'[r] = frame[r] /\ status'[r] = status[r]
      BY <1>0, <2>1, <2>6 DEF AfterReceive, Send, TypeOK, Busy
    <3> QED
      BY <1>2, <2>1, <3>3, <3>4, <3>5
  <2>7. CASE GrantCropWindow(c)
    <3> DEFINE w == [frame |-> nextFrame, place |-> NextPlace(c)]
               m == RenderCrop(w)
    <3>1. Grants(c) /\ toClient' = Send(c, m) /\ status' = [status EXCEPT ![c] = "RENDER_CROP"]
      BY <2>7 DEF GrantCropWindow
    <3>2. m \in ToClient /\ m.kind = "render_crop" /\ m.win.place = NextPlace(c)
      BY NextPlaceType, MessageTypes DEF CropWindow, TypeOK, RenderCrop
    <3>3. NextPlace(c) \in Windows \/ films[frame[c]] # {}
      <4>1. CASE cropWindows = <<>> \/ ~ScanOver \/ Restarts(c)
        <5>1. NextPlace(c) # NoArea
          <6>1. 0 \in Windows /\ NoArea \notin Windows /\ NoArea = WindowsPerFrame /\ WindowsPerFrame \in Nat
            BY WindowsAssumption DEF Windows, NoArea
          <6>2. cropWindows # <<>> /\ ~ScanOver => Back.place + 1 # NoArea
            <7> SUFFICES ASSUME cropWindows # <<>>, ~ScanOver PROVE Back.place + 1 # NoArea
              OBVIOUS
            <7>1. Len(cropWindows) \in DOMAIN cropWindows /\ cropWindows \in Seq(CropWindow)
              BY DEF TypeOK
            <7>2. Back \in CropWindow
              BY <7>1 DEF Back
            <7>3. Back.place \in Windows \cup {NoArea}
              BY <7>2 DEF CropWindow
            <7> QED
              BY <6>1, <7>3 DEF ScanOver, Windows
          <6> QED
            BY <4>1, <6>1, <6>2 DEF NextPlace
        <5> QED
          BY <5>1, NextPlaceType
      <4>2. CASE ScanOver /\ ~Restarts(c)
        <5>1. status[c] \notin {"RENDER_CROP", "END_FRAME"}
          BY <3>1, <4>2 DEF Grants
        <5>2. status[c] = "START_FRAME"
          BY <2>2, <2>5, <5>1 DEF RenderNodeStatus
        <5>3. frame[c] < nextFrame
          BY <2>2, <2>5, <4>2, <5>2 DEF Restarts
        <5> QED
          BY <2>2, <5>3 DEF ImageInv, FilledBefore
      <4> QED
        BY <4>1, <4>2
    <3> HIDE DEF m, w
    <3>4. Fits(m, "RENDER_CROP", films[frame[c]])
      BY <3>2, <3>3 DEF Fits
    <3> QED
      BY <2>6, <3>1, <3>2, <3>4
  <2>8. CASE EndCurrentFrame(c)
    <3> DEFINE m == EndFrame(frame[c])
    <3>1. status[c] = "RENDER_CROP" /\ toClient' = Send(c, m) /\ status' = [status EXCEPT ![c] = "END_FRAME"]
      BY <2>8 DEF EndCurrentFrame
    <3>2. m \in ToClient /\ Fits(m, "END_FRAME", films[frame[c]])
      BY <2>5, MessageTypes DEF EndFrame, Fits
    <3> HIDE DEF m
    <3> QED
      BY <2>4, <2>6, <3>1, <3>2
  <2> QED
    BY <1>9, <2>7, <2>8
<1>10. ASSUME NEW c \in Clients, StartNextFrame(c) \/ GoIdle(c) PROVE ImageInv'
  <2>1. /\ LeavesFrame(c) /\ EndFrameStep(c) /\ curFrame' = EndedCur(c) /\ nextFrame' = EndedNext(c)
        /\ frame' = FramesAfter(c) /\ toServer' = AfterReceive(c)
        /\ UNCHANGED <<connections, jobFiles, films, finished>>
        /\ \A r \in Clients \ {c} : status'[r] = status[r]
        /\ Received(c, "request_render_task")
    BY <1>10 DEF StartNextFrame, GoIdle, LeavesFrame, history, TypeOK
  <2>2. /\ DOMAIN disk \subseteq DOMAIN disk' /\ NotBlank'
        /\ \A f \in DOMAIN films : f < NextAfter(c) => films[f] # {} /\ Name(f) \in DOMAIN disk
    BY <2>1, EndFrameImages
  <2>3. /\ nextFrame' = NextAfter(c) /\ NextAfter(c) \in Int /\ curFrame' \in Int /\ curFrame' <= NextAfter(c)
    BY <2>1, EndFrameFacts
  <2>4. FilledBefore' /\ FinishedOnDisk'
    BY <2>1, <2>2, <2>3 DEF FilledBefore, FinishedOnDisk, ImageInv, Name, FrontFile
  <2>5. c \in Renderers /\ toServer'[c] = <<>> /\ frame'[c] = NextAfter(c)
    BY <2>1, RequestFacts DEF FramesAfter, TypeOK
  <2>6. \A r \in Renderers \ {c} : toServer'[r] = toServer[r] /\ frame'[r] = frame[r]
                                   /\ (Busy(r)' => Busy(r) /\ status'[r] = status[r])
    BY <1>0, <2>1 DEF AfterReceive, FramesAfter, TypeOK, Busy
  <2>7. NotBehind'
    <3> SUFFICES ASSUME NEW r \in Renderers, Busy(r)' PROVE curFrame' <= frame'[r]
      BY DEF NotBehind
    <3>1. CASE r = c
      BY <2>3, <2>5, <3>1
    <3>2. CASE r # c
      <4>1. Busy(r) /\ frame'[r] = frame[r] /\ r \in connections /\ type[r] = "RENDERER"
        BY <2>6, <3>2 DEF Busy, Roles
      <4>2. frame[r] \in Int /\ curFrame \in Int /\ curFrame <= frame[r]
        BY <1>0, <4>1 DEF TypeOK, ImageInv, NotBehind
      <4>3. FrameAllDone(c) => FramesAfter(c)[r] > curFrame
        BY <4>1 DEF FrameAllDone
      <4>4. FramesAfter(c)[r] = frame[r]
        BY <2>1, <4>1
      <4> QED
        BY <2>1, <4>1, <4>2, <4>3, <4>4 DEF EndedCur
    <3> QED
      BY <3>1, <3>2
  <2>8. (toClient' = toClient /\ ~Busy(c)') \/ StartNextFrame(c)
    BY <1>10 DEF GoIdle, Busy, TypeOK
  <2>9. StartNextFrame(c) =>
           /\ toClient' = Send(c, StartFrame(NextAfter(c))) /\ status'[c] = "START_FRAME"
    BY DEF StartNextFrame, TypeOK
  <2>10. \A r \in Renderers \ {c} : toClient'[r] = toClient[r]
    BY <1>0, <2>8, <2>9 DEF Send, TypeOK
  <2>11. Busy(c)' => FillingAt(c)'
    <3> SUFFICES ASSUME StartNextFrame(c) PROVE FillingAt(c)'
      BY <2>8
    <3> DEFINE m == StartFrame(NextAfter(c))
    <3>1. m \in ToClient /\ m.kind = "start_frame"
      BY <2>3, MessageTypes DEF StartFrame
    <3>2. toClient'[c] = Append(toClient[c], m) /\ toClient[c] \in Seq(ToClient)
      BY <2>9 DEF Send, TypeOK
    <3> HIDE DEF m
    <3>3. Fits(m, "START_FRAME", films'[frame'[c]])
      BY <3>1 DEF Fits
    <3> QED
      BY <2>5, <2>9, <3>1, <3>2, <3>3, FillingSend DEF FillingAt
  <2>12. NodesFill'
    BY <2>1, <2>2, <2>6, <2>10, <2>11, FillingOthers DEF ImageInv, FrontFile
  <2> QED
    BY <2>2, <2>4, <2>7, <2>12 DEF ImageInv
<1>11. ASSUME NEW c \in Clients, EndScene(c) PROVE ImageInv'
  <2> DEFINE job == Head(jobFiles)
             st == [status EXCEPT ![c] = "IDLE"]
  <2>1. /\ LeavesFrame(c) /\ ~MoreFrames(c) /\ EndFrameStep(c) /\ SceneEnds(c)
        /\ Received(c, "request_render_task") /\ UNCHANGED connections
        /\ toServer' = AfterReceive(c) /\ finished' = Append(finished, job)
        /\ DoRenderScene(Tail(jobFiles), EndedCur(c), EndedNext(c), type, FramesAfter(c), st, EndSceneSent)
    BY <1>11 DEF EndScene, LeavesFrame
  <2>2. /\ c \in Renderers /\ toServer'[c] = <<>> /\ jobFiles # <<>> /\ jobFiles \in Seq(Job)
        /\ frame[c] \in DOMAIN films
    BY <2>1, RequestFacts DEF TypeOK
  <2>3. /\ DOMAIN disk \subseteq DOMAIN disk' /\ NotBlank'
        /\ \A f \in DOMAIN films : f < NextAfter(c) => films[f] # {} /\ Name(f) \in DOMAIN disk
    BY <2>1, EndFrameImages
  <2>4. FinishedOnDisk'
    <3>1. job \in Job /\ job.begin \in Int /\ job.end \in Int /\ NextAfter(c) = job.end
      <4>1. job.begin \in Int /\ job.end \in Int /\ NextAfter(c) \in Int /\ NextAfter(c) <= job.end
        BY <2>1, EndFrameFacts
      <4> QED
        BY <2>1, <2>2, <4>1 DEF MoreFrames
    <3>2. DOMAIN films = FramesOf(job)
      BY <2>2 DEF FilmsOfFrontJob
    <3>3. \A f \in FramesOf(job) : <<job.file, f>> \in DOMAIN disk'
      BY <2>3, <3>1, <3>2 DEF FramesOf, Name, FrontFile
    <3>4. \A i \in DOMAIN finished' : finished'[i] = job \/ (i \in DOMAIN finished /\ finished'[i] = finished[i])
      <4> HIDE DEF job
      <4>1. finished \in Seq(Job)
        BY DEF TypeOK
      <4> QED
        BY <2>1, <3>1, <4>1, AppendToSeq
    <3> QED
      BY <2>3, <3>3, <3>4 DEF FinishedOnDisk, ImageInv, FramesOf
  <2>5. ASSUME NEW r \in Renderers, r \in connections PROVE st[r] = "IDLE" /\ toServer'[r] = <<>>
    <3>1. CASE r = c
      BY <1>0, <2>2, <3>1 DEF TypeOK
    <3>2. CASE r # c
      <4>1. status[r] = "IDLE"
        BY <2>1, <2>5, <3>2 DEF SceneEnds, Roles
      <4>2. toServer[r] = <<>>
        BY <4>1 DEF OneTask
      <4> QED
        BY <1>0, <2>1, <3>2, <4>1, <4>2 DEF AfterReceive, TypeOK
    <3> QED
      BY <3>1, <3>2
  <2>6. Tail(jobFiles) \in Seq(Job)
    BY <2>2
  <2>7. EndSceneSent \in [Clients -> Seq(ToClient)]
    BY MessageTypes DEF EndSceneSent, TypeOK
  <2> HIDE DEF st, job
  <2>8. FilledBefore' /\ NodesFill' /\ NotBehind'
    BY <2>1, <2>5, <2>6, <2>7, DoRenderSceneImages
  <2> QED
    BY <2>3, <2>4, <2>8 DEF ImageInv
<1>12. ASSUME NEW c \in Renderers, NEW ins, toServer' = [toServer EXCEPT ![c] = ins],
              toClient' = AfterDelivery(c), UNCHANGED <<connections, status, frame>>,
              UNCHANGED <<curFrame, nextFrame, jobFiles, finished, films, disk>>,
              Busy(c) => Filling(ins, Tail(toClient[c]), status[c], films[frame[c]], Name(frame[c]), DOMAIN disk)
       PROVE  ImageInv'
  <2>1. toServer'[c] = ins /\ toClient'[c] = Tail(toClient[c])
    BY <1>0, <1>12 DEF AfterDelivery, TypeOK
  <2>2. Busy(c)' => FillingAt(c)' /\ curFrame <= frame'[c]
    BY <1>12, <2>1 DEF FillingAt, Busy, Name, FrontFile, ImageInv, NotBehind
  <2>3. \A r \in Renderers \ {c} : toServer'[r] = toServer[r] /\ toClient'[r] = toClient[r]
    BY <1>0, <1>12 DEF AfterDelivery, TypeOK
  <2> QED
    BY <1>2, <1>12, <2>2, <2>3 DEF Busy
<1>13. ASSUME NEW c \in Renderers, RendererStep(c) \/ ScriptFails(c)
       PROVE  /\ toClient' = AfterDelivery(c) /\ UNCHANGED <<connections, status, frame>>
              /\ UNCHANGED <<curFrame, nextFrame, jobFiles, finished, films, disk>>
  <2>1. CASE RendererStep(c)
    BY <2>1 DEF RendererStep, DoRenderCrop, DoStartFrame, DoEndFrame, DoStartRenderScene,
       DoEndRenderScene, clientUnchanged, svrVars, filmVars, nodeVars
  <2>2. CASE ScriptFails(c)
    BY <2>2, ScriptFailsFacts
  <2> QED
    BY <1>13, <2>1, <2>2
<1>14. ASSUME NEW c \in Renderers, \/ DoStartRenderScene(c) \/ DoEndRenderScene(c)
                                  \/ StartSceneFails(c) \/ EndSceneFails(c)
       PROVE  ImageInv'
  <2>1. /\ toClient[c] # <<>> /\ toClient[c] \in Seq(ToClient)
        /\ toServer' = [toServer EXCEPT ![c] = toServer[c]]
    BY <1>0, <1>14 DEF DoStartRenderScene, DoEndRenderScene, StartSceneFails, EndSceneFails,
       clientUnchanged, Delivered, TypeOK
  <2>2. ASSUME Busy(c)
        PROVE  Filling(toServer[c], Tail(toClient[c]), status[c], films[frame[c]], Name(frame[c]), DOMAIN disk)
    <3>1. Filling(toServer[c], toClient[c], status[c], films[frame[c]], Name(frame[c]), DOMAIN disk)
      BY <2>2 DEF ImageInv, NodesFill, FillingAt
    <3> QED
      BY <2>1, <3>1, FillingDeliver
  <2> QED
    BY <1>12, <1>13, <1>14, <2>1, <2>2 DEF RendererStep, ScriptFails
<1>15. ASSUME NEW c \in Renderers, DoRenderCrop(c) \/ DoStartFrame(c) \/ DoEndFrame(c) \/ TaskFails(c)
       PROVE  ImageInv'
  <2> DEFINE outs == toClient[c]
             film == films[frame[c]]
             name == Name(frame[c])
             names == DOMAIN disk
             st == status[c]
  <2>1. /\ Busy(c) /\ toServer[c] = <<>> /\ outs \in Seq(ToClient) /\ outs # <<>> /\ Len(outs) = 1
        /\ Tail(outs) = <<>> /\ Head(outs) = outs[1]
    BY <1>15, TaskFacts DEF DoRenderCrop, DoStartFrame, DoEndFrame, TaskFails
  <2>2. Filling(<<>>, outs, st, film, name, names)
    BY <2>1 DEF ImageInv, NodesFill, FillingAt
  <2>3. /\ toClient' = AfterDelivery(c) /\ UNCHANGED <<connections, status, frame>>
        /\ UNCHANGED <<curFrame, nextFrame, jobFiles, finished, films, disk>>
    BY <1>13, <1>15 DEF RendererStep, ScriptFails
  <2> DEFINE Goes(ins) == toServer' = [toServer EXCEPT ![c] = ins] /\ Filling(ins, <<>>, st, film, name, names)
  <2>4. ASSUME NEW ins, Goes(ins) PROVE ImageInv'
    BY <1>12, <2>1, <2>3, <2>4
  <2>5. CASE DoRenderCrop(c)
    <3> DEFINE ins == <<>> \o <<AddSample(scene[c], outs[1].win.place), WriteImage, RequestTask>>
    <3>1. toServer' = [toServer EXCEPT ![c] = ins] /\ outs[1].kind = "render_crop"
      BY <2>1, <2>5 DEF DoRenderCrop, Reply, Delivered
    <3> HIDE DEF outs, film, name, names, st
    <3>2. Filling(ins, <<>>, st, film, name, names)
      BY <2>1, <2>2, <3>1, FillingAnswer
    <3> HIDE DEF ins
    <3>3. Goes(ins)
      BY <3>1, <3>2
    <3> QED
      BY <2>4, <3>3
  <2>6. CASE DoStartFrame(c) \/ DoEndFrame(c)
    <3> DEFINE ins == <<>> \o <<RequestTask>>
    <3>1. toServer' = [toServer EXCEPT ![c] = ins] /\ outs[1].kind \in {"start_frame", "end_frame"}
      BY <2>1, <2>6 DEF DoStartFrame, DoEndFrame, Reply, Delivered
    <3> HIDE DEF outs, film, name, names, st
    <3>2. Filling(ins, <<>>, st, film, name, names)
      BY <2>1, <2>2, <3>1, FillingAnswer
    <3> HIDE DEF ins
    <3>3. Goes(ins)
      BY <3>1, <3>2
    <3> QED
      BY <2>4, <3>3
  <2>7. CASE TaskFails(c)
    <3>1. toServer' = [toServer EXCEPT ![c] = <<>>]
      BY <1>0, <2>1, <2>7 DEF TaskFails, TypeOK
    <3>2. Filling(<<>>, <<>>, st, film, name, names)
      BY <2>2, FillingLost
    <3> QED
      BY <2>4, <3>1, <3>2
  <2> QED
    BY <1>15, <2>5, <2>6, <2>7
<1>16. ASSUME NEW c \in Controllers, ControllerRead(c) PROVE ImageInv'
  <2>1. UNCHANGED <<toServer, connections, status, frame>> /\ toClient' = AfterDelivery(c)
        /\ UNCHANGED <<curFrame, nextFrame, jobFiles, finished, films, disk>>
    BY <1>16 DEF ControllerRead, clientUnchanged, svrVars, filmVars, nodeVars
  <2>2. c \notin Renderers /\ \A r \in Renderers \ {c} : toClient'[r] = toClient[r]
    BY <1>0, <1>16, <2>1 DEF AfterDelivery, TypeOK
  <2> QED
    BY <1>2, <2>1, <2>2 DEF Busy
<1>17. CASE AcceptFails \/ UNCHANGED vars
  <2>1. UNCHANGED <<toServer, toClient, connections, status, frame, curFrame, nextFrame, jobFiles, finished, films, disk>>
    BY <1>17 DEF AcceptFails, vars, svrVars, filmVars, nodeVars, history
  <2> QED
    BY <2>1 DEF ImageInv, NotBlank, FilledBefore, NodesFill, NotBehind, FinishedOnDisk, FillingAt, Busy,
       Name, FrontFile
<1> QED
  BY <1>3, <1>4, <1>5, <1>6, <1>7, <1>8, <1>9, <1>10, <1>11, <1>14, <1>15, <1>16, <1>17
     DEF Next, ServerStep, RequestRenderTask, RendererStep, ScriptFails

\* ImageInv is an invariant, with what it rests on.
LEMMA ImageInvHolds == Spec => [](ServesFrontJob /\ ImageInv)
<1>1. Init => ImageInv
  BY DEF Init, ImageInv, NotBlank, FilledBefore, NodesFill, NotBehind, FinishedOnDisk, Busy, NoFilms
<1>2. ServesFrontJob /\ ImageInv /\ [Next]_vars => ImageInv'
  BY ImageStep
<1> QED
  BY <1>1, <1>2, ServesFrontJobHolds, PTL DEF Spec

\* No frame of a scene that ended is missing or blank on disk, whichever clients were lost, failed
\* or joined while it was rendered.
THEOREM EveryFrameOnDiskHolds == Spec => []EveryFrameOnDisk
<1>1. ImageInv => EveryFrameOnDisk
  BY DEF ImageInv, FinishedOnDisk, NotBlank, EveryFrameOnDisk
<1> QED
  BY <1>1, ImageInvHolds, PTL

\* What EndedFrameIsFinal says of a step.
EndedFrameKept ==
  jobFiles' = jobFiles /\ DOMAIN films' = DOMAIN films =>
    \A f \in DOMAIN films : f < curFrame =>
      LET name == <<Head(jobFiles).file, f>>
      IN /\ films'[f] = films[f]
         /\ name \in DOMAIN disk /\ name \in DOMAIN disk' /\ disk'[name] = disk[name]

\* The image that end_frame writes is final: no sample comes later and the file does not change.
THEOREM EndedFrameIsFinalHolds == Spec => EndedFrameIsFinal
<1>1. ASSUME ServesFrontJob, ImageInv, [Next]_vars PROVE EndedFrameKept
  <2> USE <1>1 DEF ServesFrontJob
  <2> SUFFICES ASSUME jobFiles' = jobFiles, DOMAIN films' = DOMAIN films, NEW f \in DOMAIN films, f < curFrame
               PROVE  /\ films'[f] = films[f]
                      /\ Name(f) \in DOMAIN disk /\ Name(f) \in DOMAIN disk' /\ disk'[Name(f)] = disk[Name(f)]
    BY DEF EndedFrameKept, Name, FrontFile
  <2>1. jobFiles # <<>> /\ jobFiles \in Seq(Job) /\ DOMAIN films = FramesOf(Head(jobFiles))
    BY DEF FilmsOfFrontJob, TypeOK
  <2>2. Name(f) \in DOMAIN disk
    <3>1. f \in Int /\ curFrame \in Int /\ nextFrame \in Int /\ curFrame <= nextFrame
      BY <2>1 DEF TypeOK, FramesInOrder
    <3> QED
      BY <3>1 DEF ImageInv, FilledBefore
  <2>3. ASSUME NEW g \in DOMAIN films, g # f, NEW shown, disk' = Written(shown, g)
        PROVE  Name(f) \in DOMAIN disk' /\ disk'[Name(f)] = disk[Name(f)]
    <3>1. Name(f) # Name(g)
      BY <2>3 DEF Name
    <3> QED
      BY <2>2, <2>3, <3>1, WrittenFacts
  <2>4. ASSUME NEW c \in Clients, TakeSample(c) \/ TakeWriteImage(c)
        PROVE  frame[c] \in DOMAIN films /\ frame[c] # f
    <3>1. toServer[c] # <<>> /\ 1 \in DOMAIN toServer[c] /\ toServer[c][1].kind # "render_scene"
      <4>1. toServer[c] # <<>> /\ Head(toServer[c]).kind \in {"add_sample", "write_image"}
        BY <2>4 DEF TakeSample, TakeWriteImage, Received
      <4>2. toServer[c] \in Seq(ToServer)
        BY DEF TypeOK
      <4> QED
        BY <4>1, <4>2
    <3>2. c \in Renderers
      BY <3>1 DEF Roles, Clients
    <3>3. Busy(c) /\ frame[c] \in DOMAIN films
      BY <3>1, <3>2 DEF OneTask, Busy, BusyInFrontJob, Roles
    <3> QED
      BY <3>2, <3>3 DEF ImageInv, NotBehind, TypeOK
  <2>5. ASSUME NEW c \in Clients, TakeSample(c)
        PROVE  films'[f] = films[f] /\ (disk' = disk \/ disk' = Written(films', frame[c]))
    BY <2>4, <2>5 DEF TakeSample, Sampled
  <2>6. ASSUME NEW c \in Clients, TakeWriteImage(c)
        PROVE  films' = films /\ disk' = Written(films, frame[c])
    BY <2>6 DEF TakeWriteImage
  <2>7. ASSUME NEW c \in Clients, StartNextFrame(c) \/ GoIdle(c)
        PROVE  films' = films /\ (disk' = disk \/ (disk' = Written(films, curFrame) /\ curFrame \in DOMAIN films))
    <3>1. LeavesFrame(c) /\ EndFrameStep(c) /\ films' = films /\ Received(c, "request_render_task")
      BY <2>7 DEF StartNextFrame, GoIdle, LeavesFrame
    <3>2. FrameAllDone(c) => curFrame \in DOMAIN films
      <4>1. /\ Head(jobFiles).begin \in Int /\ Head(jobFiles).end \in Int
            /\ NextAfter(c) <= Head(jobFiles).end /\ NextAfter(c) \in Int
            /\ FrameAllDone(c) => curFrame < NextAfter(c)
        BY <3>1, EndFrameFacts
      <4>2. Head(jobFiles).begin <= curFrame /\ curFrame \in Int
        BY <2>1 DEF FramesInOrder, TypeOK
      <4> QED
        BY <2>1, <4>1, <4>2 DEF FramesOf
    <3> QED
      BY <3>1, <3>2 DEF EndFrameStep
  <2>8. ASSUME NEW c \in Clients, RenderScene(c) PROVE UNCHANGED <<films, disk>>
    BY <2>1, <2>8 DEF RenderScene
  <2>9. ASSUME NEW c \in Clients PROVE ~EndScene(c)
    <3>1. Tail(jobFiles) # jobFiles
      BY <2>1, TailOfSeq
    <3> QED
      BY <3>1 DEF EndScene, DoRenderScene
  <2>10. ASSUME NEW c, RendererStep(c) \/ ScriptFails(c) \/ ControllerRead(c) PROVE UNCHANGED <<films, disk>>
    BY <2>10, ScriptFailsFacts DEF RendererStep, DoRenderCrop, DoStartFrame, DoEndFrame, DoStartRenderScene,
       DoEndRenderScene, ControllerRead, clientUnchanged, svrVars, filmVars
  <2>11. ASSUME NEW c \in Clients, \/ Accept(c) \/ LoseClient(c) \/ DisconnectRenderNode(c)
                                   \/ GrantCropWindow(c) \/ EndCurrentFrame(c)
         PROVE  UNCHANGED <<films, disk>>
    BY <2>11 DEF Accept, LoseClient, DisconnectRenderNode, GrantCropWindow, EndCurrentFrame, svrVars, filmVars
  <2>12. ASSUME AcceptFails \/ UNCHANGED vars PROVE UNCHANGED <<films, disk>>
    BY <2>12 DEF AcceptFails, vars, svrVars, filmVars
  <2> DEFINE Same == films'[f] = films[f] /\ Name(f) \in DOMAIN disk' /\ disk'[Name(f)] = disk[Name(f)]
  <2>13. ASSUME UNCHANGED <<films, disk>> PROVE Same
    BY <2>2, <2>13
  <2>14. ASSUME NEW c \in Clients, TakeSample(c) \/ TakeWriteImage(c) PROVE Same
    BY <2>2, <2>3, <2>4, <2>5, <2>6, <2>14
  <2>15. ASSUME NEW c \in Clients, StartNextFrame(c) \/ GoIdle(c) PROVE Same
    <3>1. curFrame # f
      BY DEF TypeOK
    <3>2. curFrame \in DOMAIN films /\ disk' = Written(films, curFrame) =>
            Name(f) \in DOMAIN disk' /\ disk'[Name(f)] = disk[Name(f)]
      BY <2>3, <3>1
    <3> QED
      BY <2>2, <2>7, <2>15, <3>2
  <2> HIDE DEF Same
  <2>16. ASSUME NEW c \in Clients, Accept(c) \/ LoseClient(c) \/ DisconnectRenderNode(c) \/ ServerStep(c)
         PROVE  Same
    <3>1. CASE TakeSample(c) \/ TakeWriteImage(c)
      BY <2>14, <3>1
    <3>2. CASE StartNextFrame(c) \/ GoIdle(c)
      BY <2>15, <3>2
    <3>3. CASE RenderScene(c)
      BY <2>8, <2>13, <3>3
    <3>4. CASE Accept(c) \/ LoseClient(c) \/ DisconnectRenderNode(c) \/ GrantCropWindow(c) \/ EndCurrentFrame(c)
      BY <2>11, <2>13, <3>4
    <3> QED
      BY <2>9, <2>16, <3>1, <3>2, <3>3, <3>4 DEF ServerStep, RequestRenderTask
  <2>17. ASSUME NEW c, RendererStep(c) \/ ScriptFails(c) \/ ControllerRead(c) PROVE Same
    BY <2>10, <2>13, <2>17
  <2>18. ASSUME AcceptFails \/ UNCHANGED vars PROVE Same
    BY <2>12, <2>13, <2>18
  <2>19. Same
    BY <1>1, <2>16, <2>17, <2>18 DEF Next
  <2> QED
    BY <2>2, <2>19 DEF Same
<1>2. ServesFrontJob /\ ImageInv /\ [Next]_vars => [EndedFrameKept]_vars
  BY <1>1
<1> QED
  BY <1>2, ImageInvHolds, PTL DEF Spec, EndedFrameIsFinal, EndedFrameKept

-----------------------------------------------------------------------------
(***************************************************************************)
(* While no client is lost the first frame of a scene is complete on disk  *)
(* when the scene ends, and every frame is if there is one renderer.       *)
(***************************************************************************)

(***************************************************************************)
(* What is on its way to or from a client: window w, which was sent to be  *)
(* rendered or whose samples come back, and an order to write the image.   *)
(***************************************************************************)
Holds(ins, outs, w) ==
  \/ \E i \in DOMAIN outs : outs[i].kind = "render_crop" /\ outs[i].win.place = w
  \/ \E i \in DOMAIN ins : ins[i].kind = "add_sample" /\ ins[i].place = w
Writes(ins) == \E i \in DOMAIN ins : ins[i].kind = "write_image"
WrittenAfter(ins) ==
  \A i \in DOMAIN ins : ins[i].kind = "add_sample" =>
    \E k \in DOMAIN ins : i < k /\ ins[k].kind = "write_image"

\* Window w of frame f is with a node, or is not handed out yet: the scan of f has
\* not come to it, or has not begun and no node has a window of f.
InWork(w, f) == \E r \in Renderers : Busy(r) /\ frame[r] = f /\ Holds(toServer[r], toClient[r], w)
NotBegun(w, f) ==
  /\ nextFrame = f
  /\ Closed(cropWindows) => \A r \in Renderers : Busy(r) => status[r] = "START_FRAME"
  /\ ~Closed(cropWindows) => Back.place < w

(***************************************************************************)
(* The inductive invariant, while no client is lost.  The frames that are  *)
(* to be complete are the first one and, with one renderer, those that it  *)
(* has come to: no window of them is lost, and what their films have is on *)
(* disk or about to be written.                                            *)
(***************************************************************************)
NoneLost == connections \subseteq alive
SamplesWritten == \A r \in Renderers : WrittenAfter(toServer[r])
SoloAtNext == Solo => \A r \in Renderers : Busy(r) => frame[r] = nextFrame
Covered == {f \in DOMAIN films : f = Head(jobFiles).begin \/ (Solo /\ f <= nextFrame)}
AllRendered == \A f \in Covered : \A w \in Windows : w \in films[f] \/ InWork(w, f) \/ NotBegun(w, f)
OnDisk ==
  \A f \in DOMAIN films :
    \/ films[f] = {}
    \/ Name(f) \in DOMAIN disk /\ disk[Name(f)] = films[f]
    \/ \E r \in Renderers : Busy(r) /\ frame[r] = f /\ Writes(toServer[r])
FinishedComplete ==
  \A i \in DOMAIN finished : \A f :
    f = finished[i].begin \/ (Solo /\ f \in FramesOf(finished[i])) =>
      RenderedLater(i, f) \/ CompleteOnDisk(i, f)
FrameInv == NoneLost /\ SamplesWritten /\ SoloAtNext /\ AllRendered /\ OnDisk /\ FinishedComplete

-----------------------------------------------------------------------------
\* The server reads a message.
LEMMA HoldsReceive ==
  ASSUME NEW ins \in Seq(ToServer), ins # <<>>, NEW outs
  PROVE  /\ \A w : Holds(ins, outs, w) =>
              Holds(Tail(ins), outs, w) \/ (Head(ins).kind = "add_sample" /\ Head(ins).place = w)
         /\ Writes(ins) => Writes(Tail(ins)) \/ Head(ins).kind = "write_image"
         /\ WrittenAfter(ins) => WrittenAfter(Tail(ins))
         /\ WrittenAfter(ins) /\ Head(ins).kind = "add_sample" => Writes(Tail(ins))
<1> DEFINE t == Tail(ins)
<1>1. /\ t \in Seq(ToServer) /\ Head(ins) = ins[1] /\ Len(t) = Len(ins) - 1 /\ 1 \in DOMAIN ins
      /\ \A i \in DOMAIN t : t[i] = ins[i + 1]
      /\ DOMAIN t = 1 .. Len(t) /\ DOMAIN ins = 1 .. Len(ins) /\ Len(ins) \in Nat
  BY TailOfSeq
<1> HIDE DEF t
<1>2. \A i \in DOMAIN ins : i = 1 \/ (i - 1 \in DOMAIN t /\ t[i - 1] = ins[i])
  BY <1>1
<1>3. \A w : Holds(ins, outs, w) =>
        Holds(t, outs, w) \/ (Head(ins).kind = "add_sample" /\ Head(ins).place = w)
  BY <1>1, <1>2 DEF Holds
<1>4. Writes(ins) => Writes(t) \/ Head(ins).kind = "write_image"
  BY <1>1, <1>2 DEF Writes
<1>5. ASSUME WrittenAfter(ins) PROVE WrittenAfter(t)
  <2> SUFFICES ASSUME NEW i \in DOMAIN t, t[i].kind = "add_sample"
               PROVE  \E k \in DOMAIN t : i < k /\ t[k].kind = "write_image"
    BY DEF WrittenAfter
  <2>1. i + 1 \in DOMAIN ins /\ ins[i + 1].kind = "add_sample"
    BY <1>1
  <2>2. PICK k \in DOMAIN ins : i + 1 < k /\ ins[k].kind = "write_image"
    BY <1>5, <2>1 DEF WrittenAfter
  <2>3. k - 1 \in DOMAIN t /\ i < k - 1 /\ t[k - 1].kind = "write_image"
    BY <1>1, <1>2, <2>2
  <2> QED
    BY <2>3
<1>6. ASSUME WrittenAfter(ins), Head(ins).kind = "add_sample" PROVE Writes(t)
  <2>1. PICK k \in DOMAIN ins : 1 < k /\ ins[k].kind = "write_image"
    BY <1>1, <1>6 DEF WrittenAfter
  <2> QED
    BY <1>2, <2>1 DEF Writes
<1> QED
  BY <1>3, <1>4, <1>5, <1>6 DEF t

\* A client reads a message.
LEMMA HoldsDeliver ==
  ASSUME NEW ins, NEW outs \in Seq(ToClient), outs # <<>>, NEW w, Holds(ins, outs, w)
  PROVE  Holds(ins, Tail(outs), w) \/ (Head(outs).kind = "render_crop" /\ Head(outs).win.place = w)
<1> DEFINE t == Tail(outs)
<1>1. /\ t \in Seq(ToClient) /\ Head(outs) = outs[1] /\ Len(t) = Len(outs) - 1 /\ 1 \in DOMAIN outs
      /\ \A i \in DOMAIN t : t[i] = outs[i + 1]
      /\ DOMAIN t = 1 .. Len(t) /\ DOMAIN outs = 1 .. Len(outs) /\ Len(outs) \in Nat
  BY TailOfSeq
<1> HIDE DEF t
<1>2. \A i \in DOMAIN outs : i = 1 \/ (i - 1 \in DOMAIN t /\ t[i - 1] = outs[i])
  BY <1>1
<1>3. Holds(ins, t, w) \/ (Head(outs).kind = "render_crop" /\ Head(outs).win.place = w)
  BY <1>1, <1>2 DEF Holds
<1> QED
  BY <1>3 DEF t

\* Nothing is under way.
LEMMA HoldsNothing == ~Writes(<<>>) /\ \A w : ~Holds(<<>>, <<>>, w)
BY DEF Holds, Writes

\* A client answers a window.
LEMMA HoldsAnswer ==
  ASSUME NEW s, NEW p
  PROVE  /\ Holds(<<>> \o <<AddSample(s, p), WriteImage, RequestTask>>, <<>>, p)
         /\ WrittenAfter(<<>> \o <<AddSample(s, p), WriteImage, RequestTask>>)
         /\ WrittenAfter(<<>> \o <<RequestTask>>) /\ WrittenAfter(<<>>)
<1> DEFINE a == AddSample(s, p)
           w == WriteImage
           q == RequestTask
           t == <<>> \o <<a, w, q>>
<1>1. /\ a.kind = "add_sample" /\ a.place = p
      /\ w.kind = "write_image" /\ q.kind = "request_render_task"
  BY DEF AddSample, WriteImage, RequestTask
<1> HIDE DEF a, w, q
<1>2. /\ Len(t) = 3 /\ DOMAIN t = {1, 2, 3} /\ t[1] = a /\ t[2] = w /\ t[3] = q
      /\ <<>> \o <<q>> = <<q>>
  OBVIOUS
<1> HIDE DEF t
<1>3. Holds(t, <<>>, p) /\ WrittenAfter(t)
  BY <1>1, <1>2 DEF Holds, WrittenAfter
<1>4. WrittenAfter(<<q>>) /\ WrittenAfter(<<>>)
  BY <1>1 DEF WrittenAfter
<1> QED
  BY <1>2, <1>3, <1>4 DEF t, a, w, q

\* The server sends a message.
LEMMA HoldsSend ==
  ASSUME NEW ins, NEW outs \in Seq(ToClient), NEW m \in ToClient
  PROVE  /\ \A w : Holds(ins, outs, w) => Holds(ins, Append(outs, m), w)
         /\ m.kind = "render_crop" => Holds(ins, Append(outs, m), m.win.place)
<1>1. /\ \A i \in DOMAIN outs : i \in DOMAIN Append(outs, m) /\ Append(outs, m)[i] = outs[i]
      /\ Len(outs) + 1 \in DOMAIN Append(outs, m) /\ Append(outs, m)[Len(outs) + 1] = m
  OBVIOUS
<1> QED
  BY <1>1 DEF Holds

\* A node that asks for a task has no window.
LEMMA RequestHoldsNothing ==
  ASSUME ServesFrontJob, NEW c \in Clients, Received(c, "request_render_task")
  PROVE  ~Writes(toServer[c]) /\ \A w : ~Holds(toServer[c], toClient[c], w)
<1>1. Len(toServer[c]) = 1 /\ toServer[c] \in Seq(ToServer) /\ NoTask(toClient[c])
      /\ Head(toServer[c]).kind = "request_render_task"
  BY RequestIsLast, RequestFacts DEF Received
<1>2. \A i \in DOMAIN toServer[c] : toServer[c][i].kind = "request_render_task"
  BY <1>1
<1> QED
  BY <1>1, <1>2 DEF Writes, Holds, NoTask, Task
-----------------------------------------------------------------------------
\* The image of a frame of the front job is written, or none is.
FrontWritten ==
  \A n \in DOMAIN disk :
    n \in DOMAIN disk' /\ (disk'[n] = disk[n] \/ \E f \in DOMAIN films : n = Name(f))

LEMMA WritesFront ==
  ASSUME NEW shown, NEW f \in DOMAIN films, disk' = disk \/ disk' = Written(shown, f)
  PROVE  FrontWritten
<1>1. CASE disk' = Written(shown, f)
  <2>1. /\ DOMAIN disk' = DOMAIN disk \cup {Name(f)}
        /\ \A n \in DOMAIN disk : n # Name(f) => disk'[n] = disk[n]
    BY <1>1, WrittenFacts, Zenon
  <2> QED
    BY <2>1 DEF FrontWritten
<1> QED
  BY <1>1 DEF FrontWritten

\* The images of the scenes that ended then.
LEMMA FinishedWritten ==
  ASSUME FinishedComplete, UNCHANGED finished, DOMAIN films' = DOMAIN films, UNCHANGED FrontFile,
         Solo' => Solo, FrontWritten
  PROVE  FinishedComplete'
<1> SUFFICES ASSUME NEW i \in DOMAIN finished, NEW f,
                    f = finished[i].begin \/ (Solo' /\ f \in FramesOf(finished[i])),
                    ~RenderedLater(i, f)'
             PROVE  CompleteOnDisk(i, f)'
  BY DEF FinishedComplete, FramesOf
<1>1. ~RenderedLater(i, f)
  BY DEF RenderedLater, FramesOf, FrontFile
<1>2. CompleteOnDisk(i, f)
  BY <1>1 DEF FinishedComplete
<1>3. f \in DOMAIN films => FrontFile # finished[i].file
  BY <1>1 DEF RenderedLater, FrontFile
<1>4. \A g \in DOMAIN films : Name(g) # <<finished[i].file, f>>
  BY <1>3 DEF Name
<1>5. <<finished[i].file, f>> \in DOMAIN disk'
      /\ disk'[<<finished[i].file, f>>] = disk[<<finished[i].file, f>>]
  BY <1>2, <1>4 DEF CompleteOnDisk, FrontWritten
<1> QED
  BY <1>2, <1>5 DEF CompleteOnDisk

\* The films after a write of one of them.
LEMMA OnDiskWritten ==
  ASSUME OnDisk, NEW g \in DOMAIN films, disk' = Written(films, g), UNCHANGED <<films, FrontFile>>,
         \A r \in Renderers : Busy(r) /\ frame[r] # g =>
           (~Writes(toServer[r])) \/ (Busy(r)' /\ frame'[r] = frame[r] /\ toServer'[r] = toServer[r])
  PROVE  OnDisk'
<1> SUFFICES ASSUME NEW f \in DOMAIN films
             PROVE  \/ films[f] = {}
                    \/ Name(f) \in DOMAIN disk' /\ disk'[Name(f)] = films[f]
                    \/ \E r \in Renderers : Busy(r)' /\ frame'[r] = f /\ Writes(toServer'[r])
  BY DEF OnDisk, Name, Writes
<1>0. /\ DOMAIN disk' = DOMAIN disk \cup {Name(g)} /\ disk'[Name(g)] = films[g]
      /\ \A n \in DOMAIN disk : n # Name(g) => disk'[n] = disk[n]
  BY WrittenFacts, Zenon
<1>1. CASE f = g
  BY <1>0, <1>1
<1>2. CASE f # g
  <2>1. Name(f) # Name(g)
    BY <1>2 DEF Name
  <2>2. CASE Name(f) \in DOMAIN disk /\ disk[Name(f)] = films[f]
    BY <1>0, <2>1, <2>2
  <2>3. CASE \E r \in Renderers : Busy(r) /\ frame[r] = f /\ Writes(toServer[r])
    <3>1. PICK r \in Renderers : Busy(r) /\ frame[r] = f /\ Writes(toServer[r])
      BY <2>3
    <3>2. Busy(r)' /\ frame'[r] = f /\ Writes(toServer'[r])
      BY <1>2, <3>1
    <3> QED
      BY <3>2
  <2> QED
    BY <2>2, <2>3 DEF OnDisk
<1> QED
  BY <1>1, <1>2

\* do_render_scene begins with empty films and a scan of the first frame, when no
\* renderer is busy.
LEMMA DoRenderSceneFrames ==
  ASSUME TypeOK, NEW q \in Seq(Job), NEW cur, NEW nxt, NEW tp, NEW fr, NEW st, NEW out,
         DoRenderScene(q, cur, nxt, tp, fr, st, out), UNCHANGED connections,
         \A r \in Renderers : toServer'[r] = <<>> /\ (r \in connections => st[r] = "IDLE"),
         Closed(cropWindows)'
  PROVE  SamplesWritten' /\ SoloAtNext' /\ AllRendered' /\ OnDisk'
<1> DEFINE job == Head(q)
           started == q # <<>> /\ job.file \notin BrokenStartup
           woken == {r \in connections : started /\ tp[r] # "CONTROLLER" /\ st[r] = "IDLE"}
<1>1. /\ frame' = [r \in Clients |-> IF r \in woken THEN job.begin ELSE fr[r]]
      /\ status' = [r \in Clients |-> IF r \in woken THEN "START_FRAME" ELSE st[r]]
      /\ jobFiles' = q /\ nextFrame' = IF q = <<>> THEN nxt ELSE job.begin
      /\ films' = IF started THEN [f \in FramesOf(job) |-> {}] ELSE NoFilms
  BY DEF DoRenderScene
<1>2. q # <<>> => job.begin \in Int
  <2>1. q # <<>> => job \in Job
    OBVIOUS
  <2> QED
    BY <2>1 DEF Job
<1> HIDE DEF job
<1>3. started => nextFrame' = job.begin
  BY <1>1
<1>4. ASSUME NEW r \in Renderers, Busy(r)'
      PROVE  started /\ frame'[r] = nextFrame' /\ status'[r] = "START_FRAME"
  <2>1. r \in Clients /\ r \in connections /\ status'[r] # "IDLE"
    BY <1>4 DEF Clients, Busy
  <2>2. r \in woken
    BY <1>1, <2>1
  <2> QED
    BY <1>1, <1>3, <2>1, <2>2
<1>5. \A f \in DOMAIN films' : started /\ films'[f] = {} /\ f \in FramesOf(job)
  BY <1>1 DEF NoFilms
<1>6. SamplesWritten'
  BY DEF SamplesWritten, WrittenAfter
<1>7. AllRendered'
  <2> SUFFICES ASSUME NEW f \in DOMAIN films', f = job.begin \/ f <= nextFrame', NEW w \in Windows
               PROVE  NotBegun(w, f)'
    BY <1>1 DEF AllRendered, Covered, job
  <2>1. f = nextFrame'
    BY <1>2, <1>3, <1>5 DEF FramesOf
  <2> QED
    BY <1>4, <2>1 DEF NotBegun
<1> QED
  BY <1>4, <1>5, <1>6, <1>7 DEF SoloAtNext, OnDisk

\* Solo is about the clients that are there: it does not begin when a client joins.
LEMMA SoloBefore == ASSUME alive \subseteq alive', Solo' PROVE Solo
BY DEF Solo

\* A step that concerns one client, which keeps its window and its order to write.
LEMMA FrameOthers ==
  ASSUME FrameInv, NEW c,
         UNCHANGED <<nextFrame, finished, films, disk, cropWindows>>,
         Head(jobFiles') = Head(jobFiles), alive \subseteq alive', connections' \subseteq alive',
         \A r \in Renderers \ {c} :
           /\ toServer'[r] = toServer[r] /\ toClient'[r] = toClient[r]
           /\ Busy(r)' <=> Busy(r)
           /\ Busy(r) => frame'[r] = frame[r] /\ status'[r] = status[r],
         c \in Renderers =>
           /\ WrittenAfter(toServer'[c])
           /\ Busy(c)' <=> Busy(c)
           /\ Busy(c) =>
                /\ frame'[c] = frame[c]
                /\ status'[c] = status[c] \/ (Closed(cropWindows) /\ status[c] # "START_FRAME")
                /\ \A w \in Windows :
                     Holds(toServer[c], toClient[c], w) => Holds(toServer'[c], toClient'[c], w)
                /\ Writes(toServer[c]) => Writes(toServer'[c])
  PROVE  FrameInv'
<1>1. Solo' => Solo
  BY SoloBefore
<1>2. ASSUME NEW r \in Renderers
      PROVE  /\ WrittenAfter(toServer'[r])
             /\ Busy(r)' <=> Busy(r)
             /\ Busy(r) =>
                  /\ frame'[r] = frame[r]
                  /\ status'[r] = status[r] \/ (Closed(cropWindows) /\ status[r] # "START_FRAME")
                  /\ \A w \in Windows :
                       Holds(toServer[r], toClient[r], w) => Holds(toServer'[r], toClient'[r], w)
                  /\ Writes(toServer[r]) => Writes(toServer'[r])
  BY DEF FrameInv, SamplesWritten
<1>3. NoneLost' /\ SamplesWritten'
  BY <1>2 DEF NoneLost, SamplesWritten
<1>4. SoloAtNext'
  BY <1>1, <1>2 DEF FrameInv, SoloAtNext
<1>5. AllRendered'
  <2> SUFFICES ASSUME NEW f \in Covered', NEW w \in Windows
               PROVE  w \in films[f] \/ InWork(w, f)' \/ NotBegun(w, f)'
    BY DEF AllRendered
  <2>1. f \in Covered
    BY <1>1 DEF Covered
  <2>2. InWork(w, f) => InWork(w, f)'
    <3> SUFFICES ASSUME InWork(w, f) PROVE InWork(w, f)'
      OBVIOUS
    <3>1. PICK r \in Renderers : Busy(r) /\ frame[r] = f /\ Holds(toServer[r], toClient[r], w)
      BY DEF InWork
    <3>2. Busy(r)' /\ frame'[r] = f /\ Holds(toServer'[r], toClient'[r], w)
      BY <1>2, <3>1
    <3> QED
      BY <3>2 DEF InWork, Holds
  <2>3. NotBegun(w, f) => NotBegun(w, f)'
    BY <1>2, ClosedIsOver DEF NotBegun
  <2> QED
    BY <2>1, <2>2, <2>3 DEF FrameInv, AllRendered
<1>6. OnDisk'
  <2> SUFFICES ASSUME NEW f \in DOMAIN films
               PROVE  \/ films[f] = {}
                      \/ Name(f) \in DOMAIN disk /\ disk[Name(f)] = films[f]
                      \/ \E r \in Renderers : Busy(r)' /\ frame'[r] = f /\ Writes(toServer'[r])
    BY DEF OnDisk, Name, FrontFile, Writes
  <2> QED
    BY <1>2 DEF FrameInv, OnDisk
<1>7. FinishedComplete'
  BY <1>1, FinishedWritten DEF FrameInv, FrontFile, FrontWritten
<1> QED
  BY <1>3, <1>4, <1>5, <1>6, <1>7 DEF FrameInv

\* The server takes a sample into the film of the frame.
LEMMA SampleFrames ==
  ASSUME ServesFrontJob, FrameInv, NEW c \in Clients, TakeSample(c)
  PROVE  FrameInv'
<1> USE DEF ServesFrontJob
<1> DEFINE p == Head(toServer[c]).place
<1>1. /\ Received(c, "add_sample") /\ toServer' = AfterReceive(c)
      /\ films' = [f \in DOMAIN films |->
                    IF f = frame[c] THEN films[f] \cup ({p} \cap Windows) ELSE films[f]]
      /\ disk' = disk \/ disk' = Written(films', frame[c])
      /\ UNCHANGED <<connections, nextFrame, jobFiles, cropWindows, finished, status, frame,
                     toClient, alive>>
  BY DEF TakeSample, Sampled, nodeVars, history
<1>2. /\ toServer[c] \in Seq(ToServer) /\ toServer[c] # <<>> /\ toServer'[c] = Tail(toServer[c])
      /\ Head(toServer[c]).kind = "add_sample"
      /\ \A r \in Clients \ {c} : toServer'[r] = toServer[r]
  BY <1>1 DEF Received, AfterReceive, TypeOK
<1>3. c \in Renderers /\ Busy(c) /\ frame[c] \in DOMAIN films /\ Renderers \subseteq Clients
  <2>1. 1 \in DOMAIN toServer[c] /\ toServer[c][1].kind # "render_scene"
    BY <1>2
  <2>2. c \in Renderers
    BY <2>1 DEF Roles, Clients
  <2> QED
    BY <1>2, <2>2 DEF OneTask, Busy, BusyInFrontJob, Roles, Clients
<1>4. /\ DOMAIN films' = DOMAIN films /\ \A f \in DOMAIN films : films[f] \subseteq films'[f]
      /\ (p \in Windows => p \in films'[frame[c]]) /\ \A f \in DOMAIN films : f # frame[c] => films'[f] = films[f]
  BY <1>1, <1>3
<1> HIDE DEF p
<1>5. /\ \A w : Holds(toServer[c], toClient[c], w) => Holds(toServer'[c], toClient[c], w) \/ w = p
      /\ WrittenAfter(toServer'[c]) /\ Writes(toServer'[c])
  BY <1>2, <1>3, HoldsReceive DEF p, FrameInv, SamplesWritten
<1>6. NoneLost' /\ SamplesWritten' /\ SoloAtNext'
  BY <1>1, <1>2, <1>3, <1>5 DEF FrameInv, NoneLost, SamplesWritten, SoloAtNext, Busy, Solo
<1>7. AllRendered'
  <2> SUFFICES ASSUME NEW f \in Covered', NEW w \in Windows, w \notin films'[f]
               PROVE  InWork(w, f)' \/ NotBegun(w, f)'
    BY DEF AllRendered
  <2>1. f \in Covered /\ f \in DOMAIN films /\ w \notin films[f]
    BY <1>1, <1>4 DEF Covered, Solo
  <2>2. ASSUME InWork(w, f) PROVE InWork(w, f)'
    <3>1. PICK r \in Renderers : Busy(r) /\ frame[r] = f /\ Holds(toServer[r], toClient[r], w)
      BY <2>2 DEF InWork
    <3>2. Holds(toServer'[r], toClient[r], w)
      BY <1>2, <1>3, <1>4, <1>5, <3>1
    <3>3. Busy(r)' /\ frame'[r] = f /\ Holds(toServer'[r], toClient'[r], w)
      BY <1>1, <3>1, <3>2 DEF Busy
    <3> QED
      BY <3>3 DEF InWork, Holds
  <2>3. NotBegun(w, f) => NotBegun(w, f)'
    BY <1>1, ClosedIsOver DEF NotBegun, Busy
  <2> QED
    BY <2>1, <2>2, <2>3 DEF FrameInv, AllRendered
<1>8. OnDisk'
  <2> SUFFICES ASSUME NEW f \in DOMAIN films
               PROVE  \/ films'[f] = {}
                      \/ Name(f) \in DOMAIN disk' /\ disk'[Name(f)] = films'[f]
                      \/ \E r \in Renderers : Busy(r) /\ frame[r] = f /\ Writes(toServer'[r])
    BY <1>1, <1>4 DEF OnDisk, Name, FrontFile, Writes, Busy
  <2>1. CASE f = frame[c]
    BY <1>3, <1>5, <2>1
  <2>2. CASE f # frame[c]
    <3>1. films'[f] = films[f]
      BY <1>4, <2>2
    <3>2. Name(f) \in DOMAIN disk => Name(f) \in DOMAIN disk' /\ disk'[Name(f)] = disk[Name(f)]
      <4>1. CASE disk' = Written(films', frame[c])
        <5>1. \A n \in DOMAIN disk : n # Name(frame[c]) => n \in DOMAIN disk' /\ disk'[n] = disk[n]
          BY <1>3, <4>1, WrittenFacts, Zenon
        <5>2. Name(f) # Name(frame[c])
          BY <2>2 DEF Name
        <5> QED
          BY <5>1, <5>2
      <4> QED
        BY <1>1, <4>1
    <3>3. CASE \E r \in Renderers : Busy(r) /\ frame[r] = f /\ Writes(toServer[r])
      <4>1. PICK r \in Renderers : Busy(r) /\ frame[r] = f /\ Writes(toServer[r])
        BY <3>3
      <4>2. toServer'[r] = toServer[r]
        BY <1>2, <1>3, <2>2, <4>1
      <4> QED
        BY <4>1, <4>2
    <3> QED
      BY <3>1, <3>2, <3>3 DEF FrameInv, OnDisk
  <2> QED
    BY <2>1, <2>2
<1>9. FinishedComplete'
  <2>1. FrontWritten
    BY <1>1, <1>3, WritesFront
  <2> QED
    BY <1>1, <1>4, <2>1, FinishedWritten DEF FrameInv, FrontFile, Solo
<1> QED
  BY <1>6, <1>7, <1>8, <1>9 DEF FrameInv

\* The server writes the image of the frame.
LEMMA WriteFrames ==
  ASSUME ServesFrontJob, FrameInv, NEW c \in Clients, TakeWriteImage(c)
  PROVE  FrameInv'
<1> USE DEF ServesFrontJob
<1>1. /\ Received(c, "write_image") /\ toServer' = AfterReceive(c) /\ disk' = Written(films, frame[c])
      /\ UNCHANGED <<connections, nextFrame, jobFiles, films, cropWindows, finished, status, frame,
                     toClient, alive>>
  BY DEF TakeWriteImage, nodeVars, history
<1>2. /\ toServer[c] \in Seq(ToServer) /\ toServer[c] # <<>> /\ toServer'[c] = Tail(toServer[c])
      /\ Head(toServer[c]).kind = "write_image"
      /\ \A r \in Clients \ {c} : toServer'[r] = toServer[r]
  BY <1>1 DEF Received, AfterReceive, TypeOK
<1>3. c \in Renderers /\ Busy(c) /\ frame[c] \in DOMAIN films /\ Renderers \subseteq Clients
  <2>1. 1 \in DOMAIN toServer[c] /\ toServer[c][1].kind # "render_scene"
    BY <1>2
  <2>2. c \in Renderers
    BY <2>1 DEF Roles, Clients
  <2> QED
    BY <1>2, <2>2 DEF OneTask, Busy, BusyInFrontJob, Roles, Clients
<1>4. /\ \A w : Holds(toServer[c], toClient[c], w) => Holds(toServer'[c], toClient[c], w)
      /\ WrittenAfter(toServer'[c])
  BY <1>2, <1>3, HoldsReceive DEF FrameInv, SamplesWritten
<1>5. NoneLost' /\ SamplesWritten' /\ SoloAtNext'
  BY <1>1, <1>2, <1>3, <1>4 DEF FrameInv, NoneLost, SamplesWritten, SoloAtNext, Busy, Solo
<1>6. AllRendered'
  <2> SUFFICES ASSUME NEW f \in Covered', NEW w \in Windows, w \notin films[f]
               PROVE  InWork(w, f)' \/ NotBegun(w, f)'
    BY <1>1 DEF AllRendered
  <2>1. f \in Covered
    BY <1>1 DEF Covered, Solo
  <2>2. ASSUME InWork(w, f) PROVE InWork(w, f)'
    <3>1. PICK r \in Renderers : Busy(r) /\ frame[r] = f /\ Holds(toServer[r], toClient[r], w)
      BY <2>2 DEF InWork
    <3>2. Busy(r)' /\ frame'[r] = f /\ Holds(toServer'[r], toClient'[r], w)
      BY <1>1, <1>2, <1>3, <1>4, <3>1 DEF Busy
    <3> QED
      BY <3>2 DEF InWork, Holds
  <2>3. NotBegun(w, f) => NotBegun(w, f)'
    BY <1>1, ClosedIsOver DEF NotBegun, Busy
  <2> QED
    BY <2>1, <2>2, <2>3 DEF FrameInv, AllRendered
<1>7. OnDisk'
  BY <1>1, <1>2, <1>3, OnDiskWritten DEF FrameInv, FrontFile, Busy
<1>8. FinishedComplete'
  <2>1. FrontWritten
    BY <1>1, <1>3, WritesFront
  <2> QED
    BY <1>1, <2>1, FinishedWritten DEF FrameInv, FrontFile, Solo
<1> QED
  BY <1>5, <1>6, <1>7, <1>8 DEF FrameInv

\* The frames that are to be complete lie before next_frame_ or are the one that the node
\* which asks for a window is at.
LEMMA CoveredByRequest ==
  ASSUME ServesFrontJob, FrameInv, NEW c \in Clients, Received(c, "request_render_task"),
         NEW f \in Covered, nextFrame = f
  PROVE  frame[c] = f
<1>1. /\ c \in Renderers /\ Busy(c) /\ frame[c] \in FramesOf(Head(jobFiles)) /\ frame[c] <= nextFrame
      /\ frame[c] \in Int /\ nextFrame \in Int /\ Head(jobFiles).begin \in Int
  BY RequestFacts, EndFrameFacts DEF Busy, ServesFrontJob, TypeOK
<1>2. CASE f = Head(jobFiles).begin
  BY <1>1, <1>2 DEF FramesOf
<1>3. CASE Solo
  BY <1>1, <1>3 DEF FrameInv, SoloAtNext
<1> QED
  BY <1>2, <1>3 DEF Covered

\* The server hands out a window: of a frame that is to be complete, the next one.
LEMMA GrantFrames ==
  ASSUME ServesFrontJob, ScanInv, FrameInv, NEW c \in Clients, GrantCropWindow(c)
  PROVE  FrameInv'
<1> USE DEF ServesFrontJob
<1> DEFINE win == [frame |-> nextFrame, place |-> NextPlace(c)]
           m == RenderCrop(win)
<1>1. /\ Received(c, "request_render_task") /\ Grants(c) /\ toServer' = AfterReceive(c)
      /\ cropWindows' = Append(cropWindows, win) /\ toClient' = Send(c, m)
      /\ status' = [status EXCEPT ![c] = "RENDER_CROP"]
      /\ UNCHANGED <<connections, nextFrame, jobFiles, films, disk, finished, frame, alive>>
  BY DEF GrantCropWindow, filmVars, history
<1>2. /\ c \in Renderers /\ c \in connections /\ status[c] # "IDLE" /\ Busy(c) /\ frame[c] <= nextFrame
      /\ frame[c] \in DOMAIN films /\ AfterReceive(c)[c] = <<>> /\ Renderers \subseteq Clients
      /\ ~Writes(toServer[c]) /\ \A w : ~Holds(toServer[c], toClient[c], w)
  BY <1>1, RequestFacts, RequestHoldsNothing DEF Busy, Clients
<1>3. /\ m \in ToClient /\ m.kind = "render_crop" /\ m.win.place = NextPlace(c)
      /\ win \in CropWindow /\ cropWindows \in Seq(CropWindow)
  BY NextPlaceType, MessageTypes DEF CropWindow, TypeOK, RenderCrop
<1>4. /\ toServer'[c] = <<>> /\ status'[c] = "RENDER_CROP" /\ Busy(c)' /\ frame'[c] = frame[c]
      /\ Holds(toServer'[c], toClient'[c], NextPlace(c))
  <2>1. toClient'[c] = Append(toClient[c], m) /\ toClient[c] \in Seq(ToClient)
    BY <1>1 DEF Send, TypeOK
  <2>2. Holds(toServer'[c], toClient'[c], NextPlace(c))
    BY <1>3, <2>1, HoldsSend
  <2>3. toServer'[c] = <<>> /\ frame'[c] = frame[c]
    BY <1>1, <1>2
  <2>4. status'[c] = "RENDER_CROP" /\ Busy(c)'
    BY <1>1, <1>2 DEF TypeOK, Busy
  <2> QED
    BY <2>2, <2>3, <2>4
<1>5. \A r \in Renderers \ {c} :
         /\ toServer'[r] = toServer[r] /\ toClient'[r] = toClient[r] /\ status'[r] = status[r]
         /\ frame'[r] = frame[r] /\ (Busy(r)' <=> Busy(r))
  BY <1>1, <1>2 DEF AfterReceive, Send, TypeOK, Busy
<1>6. /\ cropWindows' # <<>> /\ Back' = win /\ (Closed(cropWindows)' <=> NextPlace(c) >= WindowsPerFrame - 1)
  <2> HIDE DEF win
  <2>1. cropWindows' # <<>> /\ Back' = win
    BY <1>1, <1>3 DEF Back
  <2>2. win.place = NextPlace(c)
    BY DEF win
  <2>3. Closed(cropWindows)' <=> win.place >= WindowsPerFrame - 1
    BY <2>1 DEF Closed, Complete, Back
  <2> QED
    BY <2>1, <2>2, <2>3 DEF win
<1> HIDE DEF m
<1>7. NoneLost' /\ SamplesWritten' /\ SoloAtNext'
  BY <1>1, <1>2, <1>4, <1>5, HoldsAnswer
     DEF FrameInv, NoneLost, SamplesWritten, SoloAtNext, Solo
<1>8. AllRendered'
  <2> SUFFICES ASSUME NEW f \in Covered', NEW w \in Windows, w \notin films[f]
               PROVE  InWork(w, f)' \/ NotBegun(w, f)'
    BY <1>1 DEF AllRendered
  <2>1. f \in Covered
    BY <1>1 DEF Covered, Solo
  <2>2. ASSUME InWork(w, f) PROVE InWork(w, f)'
    <3>1. PICK r \in Renderers : Busy(r) /\ frame[r] = f /\ Holds(toServer[r], toClient[r], w)
      BY <2>2 DEF InWork
    <3>2. r # c
      BY <1>2, <3>1
    <3>3. Busy(r)' /\ frame'[r] = f /\ Holds(toServer'[r], toClient'[r], w)
      BY <1>5, <3>1, <3>2
    <3> QED
      BY <3>3 DEF InWork, Holds
  <2>3. ASSUME NotBegun(w, f) PROVE InWork(w, f)' \/ NotBegun(w, f)'
    <3>1. nextFrame = f /\ frame[c] = f
      BY <1>1, <2>1, <2>3, CoveredByRequest DEF NotBegun
    <3>2. NextPlace(c) = w => InWork(w, f)'
      BY <1>2, <1>4, <3>1 DEF InWork, Holds
    <3>3. NextPlace(c) \in Int /\ WindowsPerFrame \in Nat /\ w \in 0 .. (WindowsPerFrame - 1)
      BY <1>3, WindowsAssumption DEF CropWindow, Windows, NoArea
    <3>4. NextPlace(c) <= w
      <4>1. CASE Closed(cropWindows)
        <5>1. status[c] = "START_FRAME"
          BY <1>2, <2>3, <4>1 DEF NotBegun
        <5>2. NextPlace(c) = 0
          BY <3>1, <4>1, <5>1, ClosedIsOver DEF NextPlace, Restarts
        <5> QED
          BY <3>3, <5>2
      <4>2. CASE ~Closed(cropWindows)
        <5>1. NextPlace(c) = Back.place + 1 /\ Back.place < w
          BY <2>3, <4>2, ClosedIsOver DEF NextPlace, NotBegun
        <5>2. Back \in CropWindow
          <6>1. Len(cropWindows) \in DOMAIN cropWindows
            BY <1>3, <4>2 DEF Closed
          <6> QED
            BY <1>3, <6>1 DEF Back
        <5>3. Back.place \in Int
          BY <3>3, <5>2 DEF CropWindow, Windows, NoArea
        <5> QED
          BY <3>3, <5>1, <5>3
      <4> QED
        BY <4>1, <4>2
    <3>5. NextPlace(c) < w => NotBegun(w, f)'
      BY <1>1, <1>6, <3>1, <3>3 DEF NotBegun
    <3> QED
      BY <3>2, <3>3, <3>4, <3>5
  <2> QED
    BY <2>1, <2>2, <2>3 DEF FrameInv, AllRendered
<1>9. OnDisk'
  <2> SUFFICES ASSUME NEW f \in DOMAIN films
               PROVE  \/ films[f] = {}
                      \/ Name(f) \in DOMAIN disk /\ disk[Name(f)] = films[f]
                      \/ \E r \in Renderers : Busy(r)' /\ frame'[r] = f /\ Writes(toServer'[r])
    BY <1>1 DEF OnDisk, Name, FrontFile, Writes
  <2> QED
    BY <1>2, <1>5 DEF FrameInv, OnDisk
<1>10. FinishedComplete'
  BY <1>1, FinishedWritten DEF FrameInv, FrontFile, FrontWritten, Solo
<1> QED
  BY <1>7, <1>8, <1>9, <1>10 DEF FrameInv

\* end_frame writes a film of the front job, if it does.
LEMMA EndFrameWrites ==
  ASSUME ServesFrontJob, NEW c \in Clients, LeavesFrame(c), EndFrameStep(c)
  PROVE  \/ disk' = disk
         \/ curFrame \in DOMAIN films /\ disk' = Written(films, curFrame)
<1>1. Received(c, "request_render_task")
  BY DEF LeavesFrame
<1>2. CASE FrameAllDone(c)
  <2>1. disk' = Written(films, curFrame) /\ curFrame < NextAfter(c)
    BY <1>1, <1>2, EndFrameFacts DEF EndFrameStep
  <2>2. /\ jobFiles # <<>> /\ Head(jobFiles).begin \in Int /\ Head(jobFiles).end \in Int
        /\ NextAfter(c) <= Head(jobFiles).end /\ NextAfter(c) \in Int /\ frame[c] \in DOMAIN films
    BY <1>1, RequestFacts, EndFrameFacts
  <2>3. DOMAIN films = FramesOf(Head(jobFiles))
    BY <2>2 DEF ServesFrontJob, FilmsOfFrontJob
  <2>4. Head(jobFiles).begin <= curFrame /\ curFrame \in Int
    BY <2>2 DEF ServesFrontJob, FramesInOrder, TypeOK
  <2>5. curFrame \in DOMAIN films
    BY <2>1, <2>2, <2>3, <2>4 DEF FramesOf
  <2> QED
    BY <2>1, <2>5
<1>3. CASE ~FrameAllDone(c)
  BY <1>3 DEF EndFrameStep
<1> QED
  BY <1>2, <1>3

\* A node ends its frame: all its windows are handed out, and rendered or with other nodes.
LEMMA LeaveFrames ==
  ASSUME ServesFrontJob, ScanInv, FrameInv, NEW c \in Clients, StartNextFrame(c) \/ GoIdle(c)
  PROVE  FrameInv'
<1> USE DEF ServesFrontJob
<1>1. /\ LeavesFrame(c) /\ EndFrameStep(c) /\ nextFrame' = EndedNext(c) /\ ~Grants(c)
      /\ frame' = FramesAfter(c) /\ toServer' = AfterReceive(c) /\ status[c] = "END_FRAME"
      /\ UNCHANGED <<connections, jobFiles, films, finished, alive>>
      /\ \A r \in Clients \ {c} : status'[r] = status[r] /\ toClient'[r] = toClient[r]
      /\ Received(c, "request_render_task")
      /\ status'[c] = "START_FRAME" \/ status'[c] = "IDLE"
  BY DEF StartNextFrame, GoIdle, LeavesFrame, Send, history, TypeOK
<1>2. /\ c \in Renderers /\ c \in connections /\ status[c] # "IDLE" /\ Busy(c) /\ frame[c] <= nextFrame
      /\ AfterReceive(c)[c] = <<>> /\ Renderers \subseteq Clients
      /\ ~Writes(toServer[c]) /\ \A w : ~Holds(toServer[c], toClient[c], w)
  BY <1>1, RequestFacts, RequestHoldsNothing DEF Busy, Clients
<1>3. /\ toServer'[c] = <<>> /\ frame'[c] = NextAfter(c) /\ nextFrame' = NextAfter(c)
      /\ NextAfter(c) \in Int /\ nextFrame \in Int
  BY <1>1, <1>2, EndFrameFacts DEF FramesAfter, TypeOK
<1>4. \A r \in Renderers \ {c} :
         /\ toServer'[r] = toServer[r] /\ toClient'[r] = toClient[r] /\ status'[r] = status[r]
         /\ frame'[r] = frame[r] /\ (Busy(r)' <=> Busy(r))
  BY <1>1, <1>2 DEF AfterReceive, FramesAfter, TypeOK, Busy
<1>5. Closed(cropWindows) /\ Closed(cropWindows)'
  BY <1>1, EndFrameScan, ClosedIsOver DEF Grants
<1>6. Solo => \A r \in Renderers : Busy(r)' => r = c
  BY <1>1, <1>2 DEF Solo, FrameInv, NoneLost, Busy
<1>7. NoneLost' /\ SamplesWritten' /\ SoloAtNext'
  BY <1>1, <1>2, <1>3, <1>4, <1>6, HoldsAnswer
     DEF FrameInv, NoneLost, SamplesWritten, SoloAtNext, Solo
<1>8. AllRendered'
  <2> SUFFICES ASSUME NEW f \in Covered', NEW w \in Windows, w \notin films[f]
               PROVE  InWork(w, f)' \/ NotBegun(w, f)'
    BY <1>1 DEF AllRendered
  <2>1. CASE f \in Covered
    <3>1. ~NotBegun(w, f)
      BY <1>1, <1>2, <1>5 DEF NotBegun
    <3>2. InWork(w, f)
      BY <2>1, <3>1 DEF FrameInv, AllRendered
    <3>3. PICK r \in Renderers : Busy(r) /\ frame[r] = f /\ Holds(toServer[r], toClient[r], w)
      BY <3>2 DEF InWork
    <3>4. r # c
      BY <1>2, <3>3
    <3>5. Busy(r)' /\ frame'[r] = f /\ Holds(toServer'[r], toClient'[r], w)
      BY <1>4, <3>3, <3>4
    <3> QED
      BY <3>5 DEF InWork, Holds
  <2>2. CASE f \notin Covered
    <3>1. Solo /\ f \in DOMAIN films /\ f <= NextAfter(c) /\ ~(f <= nextFrame)
      BY <1>1, <1>3, <2>2 DEF Covered, Solo
    <3>2. f \in Int
      BY <3>1 DEF TypeOK
    <3>3. f = nextFrame'
      BY <1>3, <3>1, <3>2 DEF NextAfter
    <3>4. \A r \in Renderers : Busy(r)' => status'[r] = "START_FRAME"
      BY <1>1, <1>6, <3>1 DEF Busy
    <3> QED
      BY <1>5, <3>3, <3>4 DEF NotBegun
  <2> QED
    BY <2>1, <2>2
<1>9. OnDisk'
  <2>1. CASE disk' = disk
    <3> SUFFICES ASSUME NEW f \in DOMAIN films
                 PROVE  \/ films[f] = {}
                        \/ Name(f) \in DOMAIN disk /\ disk[Name(f)] = films[f]
                        \/ \E r \in Renderers : Busy(r)' /\ frame'[r] = f /\ Writes(toServer'[r])
      BY <1>1, <2>1 DEF OnDisk, Name, FrontFile, Writes
    <3> QED
      BY <1>2, <1>4 DEF FrameInv, OnDisk
  <2>2. CASE curFrame \in DOMAIN films /\ disk' = Written(films, curFrame)
    <3>1. \A r \in Renderers : Busy(r) /\ frame[r] # curFrame =>
            (~Writes(toServer[r])) \/ (Busy(r)' /\ frame'[r] = frame[r] /\ toServer'[r] = toServer[r])
      BY <1>2, <1>4
    <3>2. OnDisk /\ UNCHANGED <<films, FrontFile>>
      BY <1>1 DEF FrameInv, FrontFile
    <3> QED
      BY <2>2, <3>1, <3>2, OnDiskWritten
  <2> QED
    BY <1>1, <2>1, <2>2, EndFrameWrites
<1>10. FinishedComplete'
  <2>1. FrontWritten
    <3>1. disk' = disk \/ (curFrame \in DOMAIN films /\ disk' = Written(films, curFrame))
      BY <1>1, EndFrameWrites
    <3>2. CASE disk' = disk
      BY <3>2 DEF FrontWritten
    <3>3. CASE curFrame \in DOMAIN films /\ disk' = Written(films, curFrame)
      BY <3>3, WritesFront, Zenon
    <3> QED
      BY <3>1, <3>2, <3>3
  <2> QED
    BY <1>1, <2>1, FinishedWritten DEF FrameInv, FrontFile, Solo
<1> QED
  BY <1>7, <1>8, <1>9, <1>10 DEF FrameInv

\* When a scene ends, the films of the frames that are to be complete are, and are on disk.
LEMMA CompleteAtEnd ==
  ASSUME ServesFrontJob, ScanInv, FrameInv, NEW c \in Clients, LeavesFrame(c), SceneEnds(c),
         NEW f \in Covered
  PROVE  films[f] = Windows /\ Name(f) \in DOMAIN disk /\ disk[Name(f)] = Windows
<1> USE DEF ServesFrontJob
<1>1. Received(c, "request_render_task") /\ status[c] = "END_FRAME" /\ Closed(cropWindows)
  BY ClosedIsOver DEF LeavesFrame, Grants
<1>2. /\ c \in Renderers /\ c \in connections /\ Busy(c)
      /\ ~Writes(toServer[c]) /\ \A w : ~Holds(toServer[c], toClient[c], w)
  BY <1>1, RequestFacts, RequestHoldsNothing DEF Busy
<1>3. \A r \in Renderers : Busy(r) => r = c
  BY DEF SceneEnds, Busy, Roles
<1>4. ASSUME NEW w \in Windows PROVE w \in films[f]
  <2>1. ~InWork(w, f)
    BY <1>2, <1>3 DEF InWork
  <2>2. ~NotBegun(w, f)
    BY <1>1, <1>2 DEF NotBegun
  <2> QED
    BY <2>1, <2>2 DEF FrameInv, AllRendered
<1>5. f \in DOMAIN films /\ films[f] = Windows
  BY <1>4 DEF Covered, TypeOK
<1>6. Windows # {}
  BY WindowsAssumption DEF Windows
<1>7. ~\E r \in Renderers : Busy(r) /\ frame[r] = f /\ Writes(toServer[r])
  BY <1>2, <1>3
<1> QED
  BY <1>5, <1>6, <1>7 DEF FrameInv, OnDisk

\* A scene ends, and the next job begins.
LEMMA EndSceneFrames ==
  ASSUME ServesFrontJob, ScanInv, FrameInv, NEW c \in Clients, EndScene(c)
  PROVE  FrameInv'
<1> USE DEF ServesFrontJob
<1> DEFINE job == Head(jobFiles)
           st == [status EXCEPT ![c] = "IDLE"]
<1>1. /\ LeavesFrame(c) /\ ~MoreFrames(c) /\ EndFrameStep(c) /\ SceneEnds(c)
      /\ Received(c, "request_render_task") /\ UNCHANGED <<connections, alive>>
      /\ toServer' = AfterReceive(c) /\ finished' = Append(finished, job)
      /\ DoRenderScene(Tail(jobFiles), EndedCur(c), EndedNext(c), type, FramesAfter(c), st, EndSceneSent)
  BY DEF EndScene, LeavesFrame
<1>2. /\ c \in Renderers /\ c \in connections /\ Busy(c) /\ AfterReceive(c)[c] = <<>>
      /\ jobFiles # <<>> /\ jobFiles \in Seq(Job) /\ frame[c] \in DOMAIN films /\ Renderers \subseteq Clients
      /\ frame[c] <= nextFrame
  BY <1>1, RequestFacts DEF Busy, TypeOK, Clients
<1>3. /\ job \in Job /\ job.begin \in Int /\ job.end \in Int /\ job.begin < job.end
      /\ NextAfter(c) = job.end /\ DOMAIN films = FramesOf(job) /\ nextFrame \in Int
  <2>1. job.begin \in Int /\ job.end \in Int /\ NextAfter(c) \in Int /\ NextAfter(c) <= job.end
    BY <1>1, EndFrameFacts
  <2>2. job = jobFiles[1] /\ 1 \in DOMAIN jobFiles
    BY <1>2
  <2> QED
    BY <1>1, <1>2, <2>1, <2>2 DEF MoreFrames, JobsHaveFrames, FilmsOfFrontJob, TypeOK
<1>4. \A f : f = job.begin \/ (Solo /\ f \in FramesOf(job)) => f \in Covered
  <2>1. Solo => nextFrame >= job.end - 1
    BY <1>2, <1>3 DEF FrameInv, SoloAtNext, NextAfter
  <2> QED
    BY <1>3, <2>1 DEF Covered, FramesOf
<1>5. NoneLost'
  BY <1>1 DEF FrameInv, NoneLost
<1>6. SamplesWritten' /\ SoloAtNext' /\ AllRendered' /\ OnDisk'
  <2>1. ASSUME NEW r \in Renderers PROVE toServer'[r] = <<>> /\ (r \in connections => st[r] = "IDLE")
    <3>1. CASE r = c
      BY <1>1, <1>2, <3>1 DEF TypeOK
    <3>2. CASE r # c
      <4>1. r \in connections => status[r] = "IDLE"
        BY <1>1, <3>2 DEF SceneEnds, Roles
      <4>2. toServer[r] = <<>>
        BY <4>1 DEF OneTask
      <4> QED
        BY <1>1, <1>2, <3>2, <4>1, <4>2 DEF AfterReceive, TypeOK
    <3> QED
      BY <3>1, <3>2
  <2>2. Tail(jobFiles) \in Seq(Job)
    BY <1>2
  <2>3. Closed(cropWindows)'
    BY <1>1, EndFrameScan
  <2> HIDE DEF st
  <2> QED
    BY <1>1, <2>1, <2>2, <2>3, DoRenderSceneFrames
<1>7. FinishedComplete'
  <2>1. finished \in Seq(Job) /\ \A f \in DOMAIN films : Name(f) = <<job.file, f>>
    BY DEF TypeOK, Name, FrontFile
  <2> HIDE DEF job, st
  <2>2. /\ DOMAIN finished' = 1 .. (Len(finished) + 1) /\ DOMAIN finished = 1 .. Len(finished)
        /\ finished'[Len(finished) + 1] = job /\ Len(finished) \in Nat
        /\ \A i \in DOMAIN finished : finished'[i] = finished[i]
    BY <1>1, <1>3, <2>1
  <2>3. /\ \A f \in DOMAIN films : Name(f) \in DOMAIN disk => disk'[Name(f)] \in {disk[Name(f)], films[f]}
        /\ \A n \in DOMAIN disk : n \in DOMAIN disk'
        /\ \A n \in DOMAIN disk : disk'[n] = disk[n] \/ \E f \in DOMAIN films : n = Name(f)
    <3>1. CASE disk' = disk
      BY <3>1
    <3>2. CASE curFrame \in DOMAIN films /\ disk' = Written(films, curFrame)
      <4>1. \A f \in DOMAIN films : f # curFrame => Name(f) # Name(curFrame)
        BY DEF Name
      <4>2. /\ DOMAIN disk' = DOMAIN disk \cup {Name(curFrame)} /\ disk'[Name(curFrame)] = films[curFrame]
            /\ \A n \in DOMAIN disk : n # Name(curFrame) => disk'[n] = disk[n]
        BY <3>2, WrittenFacts, Zenon
      <4> QED
        BY <3>2, <4>1, <4>2
    <3> QED
      BY <1>1, <3>1, <3>2, EndFrameWrites
  <2> SUFFICES ASSUME NEW i \in DOMAIN finished', NEW f,
                      f = finished'[i].begin \/ (Solo /\ f \in FramesOf(finished'[i])),
                      ~RenderedLater(i, f)'
               PROVE  CompleteOnDisk(i, f)'
    BY <1>1 DEF FinishedComplete, FramesOf, Solo
  <2>4. CASE i = Len(finished) + 1
    <3>1. f \in Covered /\ finished'[i] = job
      BY <1>4, <2>2, <2>4
    <3>2. f \in DOMAIN films /\ films[f] = Windows /\ Name(f) \in DOMAIN disk /\ disk[Name(f)] = Windows
      BY <1>1, <3>1, CompleteAtEnd DEF Covered
    <3> QED
      BY <2>1, <2>3, <3>1, <3>2 DEF CompleteOnDisk
  <2>5. CASE i \in DOMAIN finished
    <3>1. ~(finished[i].file = job.file /\ f \in FramesOf(job))
      BY <2>2, <2>5 DEF RenderedLater, FramesOf
    <3>2. ~RenderedLater(i, f)
      BY <1>3, <2>2, <2>5, <3>1 DEF RenderedLater, FramesOf, job
    <3>3. CompleteOnDisk(i, f)
      BY <2>2, <2>5, <3>2 DEF FrameInv, FinishedComplete
    <3>4. \A g \in DOMAIN films : Name(g) # <<finished[i].file, f>>
      BY <1>3, <2>1, <3>1
    <3> QED
      BY <2>2, <2>3, <2>5, <3>3, <3>4 DEF CompleteOnDisk
  <2> QED
    BY <2>2, <2>4, <2>5
<1> QED
  BY <1>5, <1>6, <1>7 DEF FrameInv

\* A controller submits a job, which begins when there is no other.
LEMMA SubmitFrames ==
  ASSUME ServesFrontJob, ScanInv, FrameInv, NEW c \in Clients, RenderScene(c)
  PROVE  FrameInv'
<1> USE DEF ServesFrontJob
<1> DEFINE job == Head(toServer[c]).job
           tp == [type EXCEPT ![c] = "CONTROLLER"]
<1>1. /\ Received(c, "render_scene") /\ toServer' = AfterReceive(c)
      /\ UNCHANGED <<connections, disk, finished, cropWindows, alive>>
  BY DEF RenderScene, history
<1>2. job \in Job /\ toServer[c] # <<>>
  BY <1>1, ReceiveType, MessageFields DEF Received
<1>3. c \notin Renderers /\ Renderers \subseteq Clients
  <2>1. 1 \in DOMAIN toServer[c] /\ toServer[c][1].kind = "render_scene"
    BY <1>1 DEF Received, TypeOK
  <2> QED
    BY <2>1 DEF Roles, Clients
<1>4. \A r \in Renderers : toServer'[r] = toServer[r]
  BY <1>1, <1>3 DEF AfterReceive, TypeOK
<1>5. CASE jobFiles = <<>> /\ DoRenderScene(<<job>>, curFrame, nextFrame, tp, frame, status, toClient)
  <2>1. \A r \in Renderers : r \in connections => status[r] = "IDLE"
    BY <1>5 DEF BusyInFrontJob, Busy, Roles
  <2>2. \A r \in Renderers : toServer'[r] = <<>> /\ (r \in connections => status[r] = "IDLE")
    BY <1>4, <2>1 DEF OneTask
  <2>3. <<job>> \in Seq(Job) /\ Closed(cropWindows)'
    BY <1>1, <1>2, <1>5, ClosedIsOver DEF ScanInv
  <2>5. DOMAIN films = {}
    BY <1>5 DEF FilmsOfFrontJob
  <2> HIDE DEF job, tp
  <2>6. SamplesWritten' /\ SoloAtNext' /\ AllRendered' /\ OnDisk'
    BY <1>1, <1>5, <2>2, <2>3, DoRenderSceneFrames
  <2>7. FinishedComplete'
    <3> SUFFICES ASSUME NEW i \in DOMAIN finished, NEW f,
                        f = finished[i].begin \/ (Solo /\ f \in FramesOf(finished[i])),
                        ~RenderedLater(i, f)'
                 PROVE  CompleteOnDisk(i, f)'
      BY <1>1 DEF FinishedComplete, FramesOf, Solo
    <3>1. ~RenderedLater(i, f)
      BY <1>1, <2>5 DEF RenderedLater, FramesOf
    <3> QED
      BY <1>1, <3>1 DEF FrameInv, FinishedComplete, CompleteOnDisk
  <2> QED
    BY <1>1, <2>6, <2>7 DEF FrameInv, NoneLost
<1>6. CASE /\ UNCHANGED <<curFrame, nextFrame, films, frame, status, toClient>>
           /\ jobFiles' = jobFiles \/ (jobFiles # <<>> /\ jobFiles' = Append(jobFiles, job))
  <2>1. \A s \in Seq(Job), j \in Job : s # <<>> => Head(Append(s, j)) = Head(s)
    OBVIOUS
  <2>2. jobFiles \in Seq(Job)
    BY DEF TypeOK
  <2> HIDE DEF job
  <2>3. Head(jobFiles') = Head(jobFiles)
    BY <1>2, <1>6, <2>1, <2>2, Zenon
  <2> QED
    BY <1>1, <1>3, <1>4, <1>6, <2>3, FrameOthers DEF FrameInv, NoneLost, Busy
<1>7. \/ jobFiles = <<>> /\ DoRenderScene(<<job>>, curFrame, nextFrame, tp, frame, status, toClient)
      \/ /\ UNCHANGED <<curFrame, nextFrame, films, frame, status, toClient>>
         /\ jobFiles' = jobFiles \/ (jobFiles # <<>> /\ jobFiles' = Append(jobFiles, job))
  BY DEF RenderScene
<1> HIDE DEF job, tp
<1> QED
  BY <1>5, <1>6, <1>7

\* A client answers a task, or loads or cleans up a scene.
LEMMA RendererFrames ==
  ASSUME ServesFrontJob, FrameInv, NEW c \in Renderers, RendererStep(c)
  PROVE  FrameInv'
<1> USE DEF ServesFrontJob
<1>1. /\ UNCHANGED <<connections, nextFrame, jobFiles, films, disk, cropWindows, finished, status,
                     frame, alive>>
      /\ toClient' = AfterDelivery(c) /\ c \in alive /\ toClient[c] # <<>>
      /\ \A r \in Clients \ {c} : toServer'[r] = toServer[r]
  BY DEF RendererStep, DoRenderCrop, DoStartFrame, DoEndFrame, DoStartRenderScene, DoEndRenderScene,
         clientUnchanged, svrVars, nodeVars, filmVars, Delivered, Reply, TypeOK
<1>2. /\ c \in Clients /\ Renderers \subseteq Clients /\ toClient[c] \in Seq(ToClient)
      /\ toClient'[c] = Tail(toClient[c]) /\ \A r \in Clients \ {c} : toClient'[r] = toClient[r]
  BY <1>1 DEF Clients, AfterDelivery, TypeOK
<1>3. ASSUME /\ WrittenAfter(toServer'[c])
             /\ \A w \in Windows :
                  Holds(toServer[c], toClient[c], w) => Holds(toServer'[c], toClient'[c], w)
             /\ Writes(toServer[c]) => Writes(toServer'[c])
      PROVE  FrameInv'
  BY <1>1, <1>2, <1>3, FrameOthers DEF FrameInv, NoneLost, Busy
<1>4. ASSUME toServer' = toServer, Head(toClient[c]).kind # "render_crop" PROVE FrameInv'
  <2>1. \A w : Holds(toServer[c], toClient[c], w) => Holds(toServer[c], toClient'[c], w)
    BY <1>1, <1>2, <1>4, HoldsDeliver
  <2> QED
    BY <1>3, <1>4, <2>1 DEF FrameInv, SamplesWritten
<1>5. ASSUME DoStartFrame(c) \/ DoEndFrame(c) PROVE FrameInv'
  <2>1. toServer[c] = <<>> /\ toClient'[c] = <<>> /\ Head(toClient[c]).kind # "render_crop"
    BY <1>2, <1>5, TaskFacts DEF DoStartFrame, DoEndFrame, Delivered
  <2>2. toServer'[c] = <<>> \o <<RequestTask>>
    BY <1>2, <1>5, <2>1 DEF DoStartFrame, DoEndFrame, Reply, TypeOK
  <2>3. ~Writes(toServer[c]) /\ ~\E w : Holds(toServer[c], toClient[c], w)
    BY <1>1, <1>2, <2>1, HoldsDeliver, HoldsNothing
  <2> QED
    BY <1>3, <2>2, <2>3, HoldsAnswer
<1>6. ASSUME DoRenderCrop(c) PROVE FrameInv'
  <2> DEFINE p == Head(toClient[c]).win.place
             ins == <<>> \o <<AddSample(scene[c], p), WriteImage, RequestTask>>
  <2>1. /\ toServer[c] = <<>> /\ Tail(toClient[c]) = <<>> /\ toClient'[c] = <<>>
        /\ toServer'[c] = ins
    BY <1>2, <1>6, TaskFacts DEF DoRenderCrop, Reply, TypeOK
  <2>2. ASSUME NEW w, Holds(toServer[c], toClient[c], w) PROVE w = p
    <3>1. Holds(toServer[c], Tail(toClient[c]), w) \/ Head(toClient[c]).win.place = w
      BY <1>1, <1>2, <2>2, HoldsDeliver
    <3>2. ~Holds(toServer[c], Tail(toClient[c]), w)
      BY <2>1, HoldsNothing
    <3> QED
      BY <3>1, <3>2
  <2>3. ~Writes(toServer[c])
    BY <2>1, HoldsNothing
  <2> HIDE DEF p
  <2>4. Holds(ins, <<>>, p) /\ WrittenAfter(ins)
    BY HoldsAnswer
  <2> HIDE DEF ins
  <2> QED
    BY <1>3, <2>1, <2>2, <2>3, <2>4
<1>7. ASSUME DoStartRenderScene(c) \/ DoEndRenderScene(c) PROVE FrameInv'
  BY <1>4, <1>7 DEF DoStartRenderScene, DoEndRenderScene, Delivered
<1> QED
  BY <1>5, <1>6, <1>7 DEF RendererStep

-----------------------------------------------------------------------------
\* A script that fails is a fault, when none has failed before.
LEMMA FirstFailure ==
  ASSUME ServesFrontJob, ScenesLoaded, CleanScenes, NoFailures, faults = 0,
         NEW r \in Renderers, ScriptFails(r)
  PROVE  faults' # 0
<1>1. \A c, call, f : ~Failed(c, call, f)
  BY DEF NoFailures, Failed
<1>2. Fault => faults' # 0
  BY DEF Fault
<1>3. CASE EndSceneFails(r)
  BY <1>2, <1>3 DEF EndSceneFails
<1>4. CASE StartSceneFails(r)
  <2>1. ~HasRenderer(r)
    BY <1>1, <1>4, CleanStarts DEF StartSceneFails
  <2> QED
    BY <1>2, <1>4, <2>1 DEF StartSceneFails
<1>5. CASE TaskFails(r)
  <2>1. /\ Busy(r) /\ toClient[r] # <<>> /\ Len(toClient[r]) = 1
        /\ Head(toClient[r]).kind \in {"render_crop", "start_frame"} /\ Head(toClient[r]) = toClient[r][1]
    BY <1>5, TaskFacts DEF TaskFails, Delivered
  <2>2. Loaded(toServer[r], toClient[r], scene[r], frame[r], FrontFile, StartFailed(r)) /\ ~StartFailed(r)
    BY <1>1, <2>1 DEF ScenesLoaded, LoadedAt, StartFailed
  <2>3. scene[r].file = FrontFile
    BY <2>1, <2>2 DEF Loaded, Shows, SceneOf
  <2>4. FrontFile \in Files
    <3>1. jobFiles # <<>> /\ jobFiles \in Seq(Job)
      BY <2>1 DEF ServesFrontJob, TypeOK, BusyInFrontJob, Busy, Roles
    <3>2. Head(jobFiles) \in Job
      BY <3>1
    <3> QED
      BY <3>2 DEF FrontFile, Job
  <2>5. HasRenderer(r)
    BY <2>3, <2>4, ScriptAssumption DEF HasRenderer
  <2> QED
    BY <1>2, <1>5, <2>5 DEF TaskFails
<1> QED
  BY <1>3, <1>4, <1>5 DEF ScriptFails

\* Every step that loses no client keeps FrameInv.
LEMMA FrameStep ==
  ASSUME ServesFrontJob, ScanInv, ScenesLoaded, CleanScenes, NoFailures, FrameInv,
         faults = 0, [Next]_vars, faults' = 0
  PROVE  FrameInv'
<1> USE DEF ServesFrontJob
<1>0. Renderers \subseteq Clients /\ \A r \in Renderers : r \notin Controllers
  BY ClientsAssumption DEF Clients
<1>1. ASSUME NEW c \in Clients, Accept(c) PROVE FrameInv'
  <2>1. /\ UNCHANGED <<nextFrame, jobFiles, films, disk, cropWindows, finished>>
        /\ ~Busy(c) /\ ~Busy(c)' /\ connections' \subseteq alive' /\ alive \subseteq alive'
        /\ c \in Renderers => toServer'[c] = <<>>
    BY <1>0, <1>1 DEF Accept, Busy, TypeOK, filmVars, history, FrameInv, NoneLost
  <2>2. \A r \in Renderers \ {c} :
           /\ toServer'[r] = toServer[r] /\ toClient'[r] = toClient[r]
           /\ Busy(r)' <=> Busy(r)
           /\ Busy(r) => frame'[r] = frame[r] /\ status'[r] = status[r]
    BY <1>0, <1>1 DEF Accept, Busy, TypeOK
  <2> QED
    BY <2>1, <2>2, HoldsAnswer, FrameOthers
<1>2. ASSUME NEW c, AcceptFails \/ LoseClient(c) \/ (c \in Renderers /\ ScriptFails(c)) PROVE FALSE
  BY <1>2, FirstFailure DEF AcceptFails, LoseClient
<1>3. ASSUME NEW c \in Clients, DisconnectRenderNode(c) PROVE FALSE
  BY <1>3 DEF DisconnectRenderNode, FrameInv, NoneLost
<1>4. ASSUME NEW c \in Clients, EndCurrentFrame(c) PROVE FrameInv'
  <2>1. /\ Received(c, "request_render_task") /\ ~Grants(c) /\ status[c] = "RENDER_CROP"
        /\ status'[c] = "END_FRAME" /\ toServer' = AfterReceive(c)
        /\ UNCHANGED <<connections, nextFrame, jobFiles, films, disk, cropWindows, finished, frame, alive>>
        /\ \A r \in Clients \ {c} : status'[r] = status[r] /\ toClient'[r] = toClient[r]
    BY <1>4 DEF EndCurrentFrame, svrVars, filmVars, history, Send, TypeOK
  <2>2. /\ c \in Renderers /\ c \in connections /\ AfterReceive(c)[c] = <<>> /\ Closed(cropWindows)
        /\ ~Writes(toServer[c]) /\ \A w : ~Holds(toServer[c], toClient[c], w)
    BY <2>1, RequestFacts, RequestHoldsNothing, ClosedIsOver DEF Grants
  <2>3. \A r \in Clients \ {c} : toServer'[r] = toServer[r]
    BY <2>1 DEF AfterReceive, TypeOK
  <2> QED
    BY <1>0, <2>1, <2>2, <2>3, HoldsAnswer, FrameOthers DEF FrameInv, NoneLost, Busy
<1>5. ASSUME NEW c \in Controllers, ControllerRead(c) PROVE FrameInv'
  <2>1. /\ UNCHANGED <<connections, nextFrame, jobFiles, films, disk, cropWindows, finished, status,
                       frame, alive, toServer>>
        /\ \A r \in Renderers : toClient'[r] = toClient[r]
    BY <1>0, <1>5 DEF ControllerRead, clientUnchanged, svrVars, filmVars, nodeVars, AfterDelivery, TypeOK
  <2> QED
    BY <1>0, <2>1, FrameOthers DEF FrameInv, NoneLost, Busy
<1>6. CASE UNCHANGED vars
  BY <1>0, <1>6, FrameOthers
     DEF vars, svrVars, filmVars, nodeVars, history, FrameInv, NoneLost, SamplesWritten, Busy
<1> QED
  BY <1>1, <1>2, <1>3, <1>4, <1>5, <1>6, SubmitFrames, SampleFrames, WriteFrames, GrantFrames,
     LeaveFrames, EndSceneFrames, RendererFrames DEF Next, ServerStep, RequestRenderTask

\* The inductive invariant is about the runs that lose no client.
LEMMA FrameInvHolds == Spec => [](faults = 0 => FrameInv)
<1>1. ASSUME Init PROVE FrameInv
  <2>1. /\ connections = {} /\ finished = <<>> /\ DOMAIN films = {}
        /\ \A r \in Renderers : toServer[r] = <<>>
    BY <1>1 DEF Init, NoFilms, Clients
  <2>2. SamplesWritten /\ NoneLost
    BY <2>1, HoldsAnswer DEF SamplesWritten, NoneLost
  <2> QED
    BY <2>1, <2>2 DEF FrameInv, SoloAtNext, Busy, AllRendered, Covered, OnDisk, FinishedComplete
<1>2. ServesFrontJob /\ ScanInv /\ ScenesLoaded /\ CleanScenes /\ NoFailures
      /\ (faults = 0 => FrameInv) /\ [Next]_vars => (faults = 0 => FrameInv)'
  <2> SUFFICES ASSUME ServesFrontJob, ScanInv, ScenesLoaded, CleanScenes, NoFailures,
                      faults = 0 => FrameInv, [Next]_vars, faults' = 0
               PROVE  FrameInv'
    OBVIOUS
  <2>1. faults \in Nat /\ (faults' = faults \/ faults' = faults + 1)
    <3>1. faults \in Nat
      BY FaultsAssumption DEF ServesFrontJob, TypeOK
    <3>2. ASSUME NEW c, \/ Accept(c) \/ DisconnectRenderNode(c) \/ RenderScene(c) \/ TakeSample(c)
                        \/ TakeWriteImage(c) \/ RequestRenderTask(c)
          PROVE  faults' = faults
      BY <3>2 DEF history, Accept, DisconnectRenderNode, RenderScene, TakeSample, TakeWriteImage,
         RequestRenderTask, GrantCropWindow, EndCurrentFrame, StartNextFrame, GoIdle, EndScene
    <3>3. ASSUME NEW c, RendererStep(c) \/ ControllerRead(c) PROVE faults' = faults
      BY <3>3 DEF RendererStep, DoRenderCrop, DoStartFrame, DoEndFrame, DoStartRenderScene,
         DoEndRenderScene, ControllerRead
    <3>4. ASSUME NEW c, AcceptFails \/ LoseClient(c) \/ ScriptFails(c)
          PROVE  faults' = faults \/ faults' = faults + 1
      BY <3>4 DEF AcceptFails, LoseClient, ScriptFails, TaskFails, StartSceneFails, EndSceneFails, Fault
    <3>5. UNCHANGED vars => faults' = faults
      BY DEF vars, history
    <3> QED
      BY <3>1, <3>2, <3>3, <3>4, <3>5 DEF Next, ServerStep
  <2>2. faults = 0
    BY <2>1
  <2> QED
    BY <2>2, FrameStep
<1> QED
  BY <1>1, <1>2, ServesFrontJobHolds, ScanInvHolds, ScenesLoadedHolds, CleanScenesHold, NoFailuresHolds,
     PTL DEF Spec

\* While no client is lost, the first frame of every scene that ended is complete on disk until it
\* is rendered again, whatever nodes joined while it was rendered.
THEOREM FirstFrameCompleteHolds == Spec => []FirstFrameComplete
<1>1. (faults = 0 => FrameInv) => FirstFrameComplete
  BY DEF FrameInv, FinishedComplete, FirstFrameComplete
<1> QED
  BY <1>1, FrameInvHolds, PTL

\* With one renderer, which is not lost, every frame of every scene that ended is complete on disk
\* until it is rendered again.
THEOREM FramesCompleteHolds == Spec => []FramesComplete
<1>1. (faults = 0 => FrameInv) => FramesComplete
  BY DEF FrameInv, FinishedComplete, FramesComplete
<1> QED
  BY <1>1, FrameInvHolds, PTL
=============================================================================
