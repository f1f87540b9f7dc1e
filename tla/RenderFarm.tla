----------------------------- MODULE RenderFarm -----------------------------
(***************************************************************************)
(* The distributed renderer: one pbr_svr process hands out crop windows of *)
(* the frames of a queue of jobs to the render clients (pbr_clnt) that     *)
(* connected to it; controllers (pbr_ctrl) connect to submit jobs.         *)
(*                                                                         *)
(* The server is single threaded: it handles one received rpc at a time,   *)
(* so each handler is one action.  A connection is a pair of FIFO channels *)
(* (TCP, written in order by Connection).  A client also handles its       *)
(* messages one at a time, to completion.                                  *)
(***************************************************************************)
EXTENDS Integers, Sequences

CONSTANTS
  Renderers,         \* pbr_clnt processes
  Controllers,       \* pbr_ctrl processes
  Files,             \* scene files
  Script,            \* Script[c]: the jobs the lua main() of controller c submits
  WindowsPerFrame,   \* crop windows that tile one frame, in scan order
  BrokenStartup,     \* scene files whose run_file or startup fails on the server
  BrokenCleanup,     \* scene files whose cleanup fails on the server
  MaxFaults          \* bound on lost clients, failing client scripts and failing accepts

Clients == Renderers \cup Controllers
Job == [file : Files, begin : Int, end : Int]
NoFile == "no scene"

ASSUME ClientsAssumption == Renderers \cap Controllers = {}
ASSUME ScriptAssumption == Script \in [Controllers -> Seq(Job)] /\ NoFile \notin Files
ASSUME WindowsAssumption == WindowsPerFrame \in Nat \ {0}
ASSUME FaultsAssumption == MaxFaults \in Nat

(***************************************************************************)
(* A crop window is a frame tag and a place in the scan order.  Places     *)
(* 0 .. WindowsPerFrame-1 tile the image; NoArea stands for the window     *)
(* with xmin = xmax and ymin = ymax that getNextCropWindow pushes when the *)
(* scan is over and none of its special cases applies.                     *)
(***************************************************************************)
Windows == 0 .. (WindowsPerFrame - 1)
NoArea == WindowsPerFrame
CropWindow == [frame : Int, place : Windows \cup {NoArea}]

RenderNodeStatus == {"IDLE", "START_FRAME", "RENDER_CROP", "END_FRAME"}
ClientType == {"CONTROLLER", "RENDERER"}

VARIABLES
  \* pbr_svr
  connections,   \* connections_: the clients that have a render_node
  cropWindows,   \* crop_windows_
  curFrame,      \* cur_frame_: the oldest frame not yet ended
  nextFrame,     \* next_frame_: the frame whose windows are handed out
  jobFiles,      \* job_files_: the queue of jobs, the front one is rendered
  films,         \* films of the front job: frame |-> places whose samples it has
  disk,          \* image files: <<file, frame>> |-> places in the file's last write
  listening,     \* an async_accept is pending
  \* render_node
  type, status, frame,
  \* channels
  toServer, toClient,
  \* clients
  alive,         \* the clients whose process and connection work
  scene,         \* what a client's lua state and scene API hold
  \* history
  finished,      \* jobs taken off the queue when their scene ended
  faults,        \* faults so far, at most MaxFaults
  failures       \* the scene scripts that failed: where, in which call, of which file

filmVars == <<films, disk>>
svrVars == <<connections, cropWindows, curFrame, nextFrame, jobFiles, filmVars, listening>>
nodeVars == <<type, status, frame>>
history == <<finished, faults, failures>>
vars == <<svrVars, nodeVars, toServer, toClient, alive, scene, history>>

-----------------------------------------------------------------------------
(***************************************************************************)
(* Messages: the rpcs of pbr_rpc.hpp.  add_sample carries, besides the     *)
(* place of the window rendered, the scene it was rendered from: the rpc   *)
(* does not, but what the samples show is what the properties are about.   *)
(* All the samples of one window are one message.                          *)
(***************************************************************************)
RequestTask == [kind |-> "request_render_task"]
WriteImage == [kind |-> "write_image"]
AddSample(s, p) == [kind |-> "add_sample", scene |-> s, place |-> p]
SubmitJob(j) == [kind |-> "render_scene", job |-> j]

RenderCrop(w) == [kind |-> "render_crop", win |-> w]
\* Mutant: start_current_frame sends the cur_frame_ of pbr_svr, not of the node.
StartServerFrame(f) == [kind |-> "start_frame", frame |-> curFrame]
StartFrame(f) == [kind |-> "start_frame", frame |-> f]
EndFrame(f) == [kind |-> "end_frame", frame |-> f]
StartRenderScene(f) == [kind |-> "start_render_scene", file |-> f]
EndRenderScene == [kind |-> "end_render_scene"]

\* The scene of a client: the file whose functions (startup, frame, cleanup) are the
\* globals of its lua state, the file whose startup made the render_options that
\* get_renderer builds on (NoFile if there are none, or none to build on), and the
\* frame they were last set to.  cleanup deletes the options and leaves the globals.
Scene == [script : Files \cup {NoFile}, file : Files \cup {NoFile}, frame : Int]
SceneOf(f, n) == [script |-> f, file |-> f, frame |-> n]
NoScene == SceneOf(NoFile, -1)

Failure == [client : Clients, call : {"startup", "cleanup"}, file : Files]
Failed(c, call, f) == [client |-> c, call |-> call, file |-> f] \in failures
AfterFailure(c, call, f) == failures \cup {[client |-> c, call |-> call, file |-> f]}

ToServer == [kind : {"request_render_task", "write_image"}]
            \cup [kind : {"add_sample"}, scene : Scene, place : Windows \cup {NoArea}]
            \cup [kind : {"render_scene"}, job : Job]
ToClient == [kind : {"render_crop"}, win : CropWindow]
            \cup [kind : {"start_frame", "end_frame"}, frame : Int]
            \cup [kind : {"start_render_scene"}, file : Files]
            \cup [kind : {"end_render_scene"}]

\* The frames a job has films for (none before initFilms or after clearFilms).
FramesOf(job) == job.begin .. (job.end - 1)
NoFilms == [f \in {} |-> {}]

\* The server's next rpc of connection c is of this kind, and what is left after it.
Received(c, kind) == c \in connections /\ toServer[c] # <<>> /\ Head(toServer[c]).kind = kind
AfterReceive(c) == [toServer EXCEPT ![c] = Tail(@)]
Send(c, msg) == [toClient EXCEPT ![c] = Append(@, msg)]

\* The same for a client, which answers with the messages of a reply.
Delivered(c, kind) == c \in alive /\ toClient[c] # <<>> /\ Head(toClient[c]).kind = kind
AfterDelivery(c) == [toClient EXCEPT ![c] = Tail(@)]
Reply(c, msgs) == [toServer EXCEPT ![c] = @ \o msgs]

Init ==
  /\ connections = {} /\ listening = TRUE
  /\ cropWindows = <<>> /\ curFrame = 0 /\ nextFrame = 0
  /\ jobFiles = <<>> /\ films = NoFilms /\ disk = NoFilms
  /\ type = [c \in Clients |-> "RENDERER"]
  /\ status = [c \in Clients |-> "IDLE"]
  /\ frame = [c \in Clients |-> 0]
  /\ toServer = [c \in Clients |-> <<>>]
  /\ toClient = [c \in Clients |-> <<>>]
  /\ alive = {} /\ scene = [c \in Clients |-> NoScene]
  /\ finished = <<>> /\ faults = 0 /\ failures = {}

-----------------------------------------------------------------------------
(***************************************************************************)
(* Connections.  A client that connects gets a render_node of type         *)
(* RENDERER, IDLE, at next_frame_; a controller submits the jobs of its    *)
(* script at once and is known as a CONTROLLER when the first one arrives. *)
(***************************************************************************)
Accept(c) ==
  /\ listening /\ c \notin alive /\ c \notin connections
  /\ connections' = connections \cup {c}
  /\ alive' = alive \cup {c}
  /\ type' = [type EXCEPT ![c] = "RENDERER"]
  /\ status' = [status EXCEPT ![c] = "IDLE"]
  /\ frame' = [frame EXCEPT ![c] = nextFrame]
  /\ scene' = [scene EXCEPT ![c] = NoScene]
  /\ toServer' = [toServer EXCEPT ![c] =
                    IF c \in Controllers
                    THEN [i \in 1 .. Len(Script[c]) |-> SubmitJob(Script[c][i])]
                    ELSE <<>>]
  /\ toClient' = [toClient EXCEPT ![c] = <<>>]
  /\ UNCHANGED <<cropWindows, curFrame, nextFrame, jobFiles, filmVars, listening, history>>

\* handle_accept with an error does not start another accept.
AcceptFails ==
  /\ listening /\ faults < MaxFaults
  /\ listening' = FALSE
  /\ faults' = faults + 1
  /\ UNCHANGED <<connections, cropWindows, curFrame, nextFrame, jobFiles, filmVars, nodeVars,
                 toServer, toClient, alive, scene, finished, failures>>

\* A client exits or its connection breaks: what it has not read is lost.  It exits
\* also where a script calls the scene API out of order, after another script failed:
\* the API throws, and nothing before main catches.
LoseClient(c) ==
  /\ c \in alive /\ faults < MaxFaults
  /\ alive' = alive \ {c}
  /\ faults' = faults + 1
  /\ toClient' = [toClient EXCEPT ![c] = <<>>]
  /\ UNCHANGED <<svrVars, nodeVars, toServer, scene, finished, failures>>

\* The server's read or write fails, possibly before it has read all that was
\* sent: the node leaves connections_ and nothing else happens.
\* (Mutant first: what is read from the connection before its error is still handled.)
DisconnectKeepsMessages(c) ==
  /\ c \in connections \ alive
  /\ connections' = connections \ {c}
  /\ toClient' = [toClient EXCEPT ![c] = <<>>]
  /\ UNCHANGED <<cropWindows, curFrame, nextFrame, jobFiles, filmVars, listening, nodeVars,
                 toServer, alive, scene, history>>

DisconnectRenderNode(c) ==
  /\ c \in connections \ alive
  /\ connections' = connections \ {c}
  /\ toServer' = [toServer EXCEPT ![c] = <<>>]
  /\ toClient' = [toClient EXCEPT ![c] = <<>>]
  /\ UNCHANGED <<cropWindows, curFrame, nextFrame, jobFiles, filmVars, listening, nodeVars,
                 alive, scene, history>>

-----------------------------------------------------------------------------
(***************************************************************************)
(* The server's handlers.  do_render_scene begins the job at the front of  *)
(* queue q; cur, nxt, tp, fr, st and out are what the handler that calls   *)
(* it has made of curFrame, nextFrame, type, frame, status and toClient.   *)
(***************************************************************************)
DoRenderScene(q, cur, nxt, tp, fr, st, out) ==
  LET job == Head(q)
      started == q # <<>> /\ job.file \notin BrokenStartup
      woken == {r \in connections : started /\ tp[r] # "CONTROLLER" /\ st[r] = "IDLE"}
  IN /\ jobFiles' = q
     /\ curFrame' = IF q = <<>> THEN cur ELSE job.begin
     /\ nextFrame' = IF q = <<>> THEN nxt ELSE job.begin
     /\ films' = IF started THEN [f \in FramesOf(job) |-> {}] ELSE NoFilms
     /\ frame' = [r \in Clients |-> IF r \in woken THEN job.begin ELSE fr[r]]
     /\ status' = [r \in Clients |-> IF r \in woken THEN "START_FRAME" ELSE st[r]]
     /\ toClient' = [r \in Clients |->
                       IF r \in woken
                       THEN out[r] \o <<StartRenderScene(job.file), StartFrame(job.begin)>>
                       ELSE out[r]]

\* render_scene from a controller: queue the job, begin it if it is alone.
RenderScene(c) ==
  /\ Received(c, "render_scene")
  /\ LET job == Head(toServer[c]).job
         tp == [type EXCEPT ![c] = "CONTROLLER"]
     IN /\ type' = tp
        /\ \/ /\ job.begin < job.end /\ jobFiles = <<>>
              /\ DoRenderScene(<<job>>, curFrame, nextFrame, tp, frame, status, toClient)
           \/ /\ job.begin < job.end /\ jobFiles # <<>>
              /\ jobFiles' = Append(jobFiles, job)
              /\ UNCHANGED <<curFrame, nextFrame, films, frame, status, toClient>>
           \/ /\ job.begin >= job.end
              /\ UNCHANGED <<jobFiles, curFrame, nextFrame, films, frame, status, toClient>>
  /\ toServer' = AfterReceive(c)
  /\ UNCHANGED <<connections, cropWindows, disk, listening, alive, scene, history>>

\* ImageFilm::writeImage of the film of this frame.  get_film returns 0 without a
\* job and indexes out of the films for another frame: FilmForEveryTask shows
\* that this does not happen.
Written(shown, f) ==
  IF f \in DOMAIN films
  THEN LET name == <<Head(jobFiles).file, f>>
       IN [n \in DOMAIN disk \cup {name} |-> IF n = name THEN shown[f] ELSE disk[n]]
  ELSE disk

\* add_sample and write_image from a client go to the film of its node's frame.  The
\* samples of the window of no area are beside the image but for the filter's reach.
\* A film writes itself when it has had as many samples as its script's
\* writefrequency says, counted over all windows.
Sampled(c) ==
  [f \in DOMAIN films |->
     IF f = frame[c] THEN films[f] \cup ({Head(toServer[c]).place} \cap Windows) ELSE films[f]]

TakeSample(c) ==
  /\ Received(c, "add_sample")
  /\ films' = Sampled(c)
  /\ disk' \in {disk, Written(Sampled(c), frame[c])}
  /\ toServer' = AfterReceive(c)
  /\ UNCHANGED <<connections, cropWindows, curFrame, nextFrame, jobFiles, listening,
                 nodeVars, toClient, alive, scene, history>>

TakeWriteImage(c) ==
  /\ Received(c, "write_image")
  /\ disk' = Written(films, frame[c])
  /\ toServer' = AfterReceive(c)
  /\ UNCHANGED <<connections, cropWindows, curFrame, nextFrame, jobFiles, films, listening,
                 nodeVars, toClient, alive, scene, history>>

-----------------------------------------------------------------------------
(***************************************************************************)
(* request_render_task: getNextCropWindow.                                 *)
(***************************************************************************)
Back == cropWindows[Len(cropWindows)]

\* Mutant: the last window of an image is left out.
ScanOverEarly == cropWindows # <<>> /\ Back.place >= WindowsPerFrame - 2

\* The last window handed out completes the scan of an image.
ScanOver == cropWindows # <<>> /\ Back.place >= WindowsPerFrame - 1

\* Only a node that begins the frame being handed out opens a new scan.
Restarts(c) == frame[c] = nextFrame /\ status[c] = "START_FRAME"

\* A window is granted unless the scan is over and the node is to end its frame.
Grants(c) == ~ScanOver \/ Restarts(c) \/ status[c] \notin {"RENDER_CROP", "END_FRAME"}

\* Mutant: the scan does not start again for the next frame.
NextPlaceUnclamped(c) == IF cropWindows = <<>> THEN 0 ELSE Back.place + 1

NextPlace(c) ==
  IF cropWindows = <<>> \/ (ScanOver /\ Restarts(c)) THEN 0
  ELSE IF ScanOver THEN NoArea
  ELSE Back.place + 1

GrantCropWindow(c) ==
  /\ Received(c, "request_render_task") /\ Grants(c)
  /\ LET win == [frame |-> nextFrame, place |-> NextPlace(c)]
     IN /\ cropWindows' = Append(cropWindows, win)
        /\ toClient' = Send(c, RenderCrop(win))
  /\ status' = [status EXCEPT ![c] = "RENDER_CROP"]
  /\ toServer' = AfterReceive(c)
  /\ UNCHANGED <<connections, curFrame, nextFrame, jobFiles, filmVars, listening, type, frame,
                 alive, scene, history>>

EndCurrentFrame(c) ==
  /\ Received(c, "request_render_task") /\ ~Grants(c) /\ status[c] = "RENDER_CROP"
  /\ status' = [status EXCEPT ![c] = "END_FRAME"]
  /\ toClient' = Send(c, EndFrame(frame[c]))
  /\ toServer' = AfterReceive(c)
  /\ UNCHANGED <<svrVars, type, frame, alive, scene, history>>

(***************************************************************************)
(* A node that ended its frame moves to next_frame_, which it increments   *)
(* if it was the first to end that frame.  Then end_frame: when no         *)
(* renderer is at or before cur_frame_, that frame is written, its windows *)
(* are forgotten and cur_frame_ advances by one.                           *)
(***************************************************************************)
\* Mutants: every node that ends a frame advances next_frame_; a frame is done when
\* no renderer is before it; the frame at the end of the job is rendered.
NextAfterAlways(c) == nextFrame + 1
NextAfter(c) == IF frame[c] = nextFrame THEN nextFrame + 1 ELSE nextFrame
FramesAfter(c) == [frame EXCEPT ![c] = NextAfter(c)]

FrameAllDoneEarly(c) ==
  \A r \in connections : type[r] = "RENDERER" => FramesAfter(c)[r] >= curFrame
FrameAllDone(c) == \A r \in connections : type[r] = "RENDERER" => FramesAfter(c)[r] > curFrame

\* The windows of s that are not tagged f, in order.
WithoutFrame(s, f) ==
  LET kept[i \in 0 .. Len(s)] ==
        IF i = 0 THEN <<>>
        ELSE IF s[i].frame = f THEN kept[i - 1] ELSE Append(kept[i - 1], s[i])
  IN kept[Len(s)]

EndedCur(c) == IF FrameAllDone(c) THEN curFrame + 1 ELSE curFrame
EndedNext(c) == IF NextAfter(c) < EndedCur(c) THEN EndedCur(c) ELSE NextAfter(c)
EndFrameStep(c) ==
  IF FrameAllDone(c)
  THEN cropWindows' = WithoutFrame(cropWindows, curFrame) /\ disk' = Written(films, curFrame)
  ELSE UNCHANGED <<cropWindows, disk>>

MoreFramesInclusive(c) == NextAfter(c) <= Head(jobFiles).end
MoreFrames(c) == NextAfter(c) < Head(jobFiles).end
LeavesFrame(c) == Received(c, "request_render_task") /\ ~Grants(c) /\ status[c] = "END_FRAME"

StartNextFrame(c) ==
  /\ LeavesFrame(c) /\ MoreFrames(c)
  /\ EndFrameStep(c)
  /\ curFrame' = EndedCur(c) /\ nextFrame' = EndedNext(c)
  /\ frame' = FramesAfter(c)
  /\ status' = [status EXCEPT ![c] = "START_FRAME"]
  /\ toClient' = Send(c, StartFrame(NextAfter(c)))
  /\ toServer' = AfterReceive(c)
  /\ UNCHANGED <<connections, jobFiles, films, listening, type, alive, scene, history>>

\* end_scene ends the scene when the node that goes idle leaves no renderer busy.
\* (Mutant first: the scene ends with the first node that goes idle.)
SceneEndsAtOnce(c) == Head(jobFiles).file \notin BrokenCleanup
SceneEnds(c) ==
  /\ \A r \in connections \ {c} : type[r] = "RENDERER" => status[r] = "IDLE"
  /\ Head(jobFiles).file \notin BrokenCleanup

\* end_render_scene goes to every connection that is not a controller's.
\* (Mutant first: a node that is not marked idle yet is left out.)
EndSceneSentToIdle ==
  [r \in Clients |-> IF r \in connections /\ type[r] # "CONTROLLER" /\ status[r] = "IDLE"
                     THEN Append(toClient[r], EndRenderScene)
                     ELSE toClient[r]]
EndSceneSent ==
  [r \in Clients |-> IF r \in connections /\ type[r] # "CONTROLLER"
                     THEN Append(toClient[r], EndRenderScene)
                     ELSE toClient[r]]

GoIdle(c) ==
  /\ LeavesFrame(c) /\ ~MoreFrames(c) /\ ~SceneEnds(c)
  /\ EndFrameStep(c)
  /\ curFrame' = EndedCur(c) /\ nextFrame' = EndedNext(c)
  /\ frame' = FramesAfter(c)
  /\ status' = [status EXCEPT ![c] = "IDLE"]
  /\ toServer' = AfterReceive(c)
  /\ UNCHANGED <<connections, jobFiles, films, listening, type, toClient, alive, scene, history>>

EndScene(c) ==
  /\ LeavesFrame(c) /\ ~MoreFrames(c) /\ SceneEnds(c)
  /\ EndFrameStep(c)
  /\ DoRenderScene(Tail(jobFiles), EndedCur(c), EndedNext(c), type, FramesAfter(c),
                   [status EXCEPT ![c] = "IDLE"], EndSceneSent)
  /\ finished' = Append(finished, Head(jobFiles))
  /\ toServer' = AfterReceive(c)
  /\ UNCHANGED <<connections, listening, type, alive, scene, faults, failures>>

RequestRenderTask(c) ==
  GrantCropWindow(c) \/ EndCurrentFrame(c) \/ StartNextFrame(c) \/ GoIdle(c) \/ EndScene(c)

-----------------------------------------------------------------------------
(***************************************************************************)
(* The client's handlers.  start_frame and render_crop answer nothing when *)
(* the frame script fails or there is no renderer.  When run_file, startup *)
(* or cleanup fails, start_render_scene and end_render_scene go on: what   *)
(* the client holds then is what the scripts before have left.             *)
(***************************************************************************)
clientUnchanged == <<svrVars, nodeVars, alive, finished>>
Fault == faults < MaxFaults /\ faults' = faults + 1

\* get_renderer finds options to build a renderer on.
HasRenderer(c) == scene[c].file # NoFile

DoRenderCrop(c) ==
  /\ Delivered(c, "render_crop") /\ HasRenderer(c)
  /\ toServer' = Reply(c, <<AddSample(scene[c], Head(toClient[c]).win.place),
                            WriteImage, RequestTask>>)
  /\ toClient' = AfterDelivery(c)
  /\ UNCHANGED <<clientUnchanged, scene, faults, failures>>

DoStartFrame(c) ==
  /\ Delivered(c, "start_frame") /\ HasRenderer(c)
  /\ scene' = [scene EXCEPT ![c].frame = Head(toClient[c]).frame]
  /\ toServer' = Reply(c, <<RequestTask>>)
  /\ toClient' = AfterDelivery(c)
  /\ UNCHANGED <<clientUnchanged, faults, failures>>

\* A fault, or the consequence of one: startup left nothing to render.
TaskFails(c) ==
  /\ Delivered(c, "render_crop") \/ Delivered(c, "start_frame")
  /\ IF HasRenderer(c) THEN Fault ELSE UNCHANGED faults
  /\ toClient' = AfterDelivery(c)
  /\ UNCHANGED <<clientUnchanged, toServer, scene, failures>>

\* Mutant: the answer to end_frame is forgotten.
DoEndFrameSilent(c) ==
  /\ Delivered(c, "end_frame")
  /\ toClient' = AfterDelivery(c)
  /\ UNCHANGED <<clientUnchanged, toServer, scene, faults, failures>>

DoEndFrame(c) ==
  /\ Delivered(c, "end_frame")
  /\ toServer' = Reply(c, <<RequestTask>>)
  /\ toClient' = AfterDelivery(c)
  /\ UNCHANGED <<clientUnchanged, scene, faults, failures>>

\* Mutant: a client asks for a task as soon as it has the scene.
DoStartRenderSceneAsks(c) ==
  /\ Delivered(c, "start_render_scene") /\ ~HasRenderer(c)
  /\ scene' = [scene EXCEPT ![c] = SceneOf(Head(toClient[c]).file, -1)]
  /\ toServer' = Reply(c, <<RequestTask>>)
  /\ toClient' = AfterDelivery(c)
  /\ UNCHANGED <<clientUnchanged, faults, failures>>

DoStartRenderScene(c) ==
  /\ Delivered(c, "start_render_scene") /\ ~HasRenderer(c)
  /\ scene' = [scene EXCEPT ![c] = SceneOf(Head(toClient[c]).file, -1)]
  /\ toClient' = AfterDelivery(c)
  /\ UNCHANGED <<clientUnchanged, toServer, faults, failures>>

\* run_file fails, which leaves the globals of the last file, or startup does, or
\* both.  The startup there is then made options or not; with options of a scene
\* that was not cleaned up it made none, as maInit refuses.
StartSceneFails(c) ==
  /\ Delivered(c, "start_render_scene")
  /\ LET told == Head(toClient[c]).file
     IN /\ \E script \in {scene[c].script, told} :
             \E file \in IF HasRenderer(c) THEN {scene[c].file} ELSE {NoFile, script} :
               scene' = [scene EXCEPT ![c] = [script |-> script, file |-> file, frame |-> -1]]
        /\ failures' = AfterFailure(c, "startup", told)
  /\ IF HasRenderer(c) THEN UNCHANGED faults ELSE Fault
  /\ toClient' = AfterDelivery(c)
  /\ UNCHANGED <<clientUnchanged, toServer>>

\* Without options there is nothing to clean up: a client that joined after the scene
\* began has no cleanup to call.
DoEndRenderScene(c) ==
  /\ Delivered(c, "end_render_scene")
  /\ scene' = [scene EXCEPT ![c] = [script |-> @.script, file |-> NoFile, frame |-> -1]]
  /\ toClient' = AfterDelivery(c)
  /\ UNCHANGED <<clientUnchanged, toServer, faults, failures>>

\* cleanup fails: the scene stays.
EndSceneFails(c) ==
  /\ Delivered(c, "end_render_scene") /\ HasRenderer(c) /\ Fault
  /\ failures' = AfterFailure(c, "cleanup", scene[c].file)
  /\ toClient' = AfterDelivery(c)
  /\ UNCHANGED <<clientUnchanged, toServer, scene>>

\* The rpc table of a controller has none of these: it drops what it reads.
ControllerRead(c) ==
  /\ c \in alive /\ toClient[c] # <<>>
  /\ toClient' = AfterDelivery(c)
  /\ UNCHANGED <<clientUnchanged, toServer, scene, faults, failures>>

-----------------------------------------------------------------------------
ServerStep(c) == RenderScene(c) \/ TakeSample(c) \/ TakeWriteImage(c) \/ RequestRenderTask(c)
RendererStep(r) ==
  \/ DoRenderCrop(r) \/ DoStartFrame(r) \/ DoEndFrame(r)
  \/ DoStartRenderScene(r) \/ DoEndRenderScene(r)
ScriptFails(r) == TaskFails(r) \/ StartSceneFails(r) \/ EndSceneFails(r)

Next ==
  \/ AcceptFails
  \/ \E c \in Clients : Accept(c) \/ LoseClient(c) \/ DisconnectRenderNode(c) \/ ServerStep(c)
  \/ \E r \in Renderers : RendererStep(r) \/ ScriptFails(r)
  \/ \E c \in Controllers : ControllerRead(c)

Spec == Init /\ [][Next]_vars

\* io_service runs every handler that is ready; a process that lives reads what
\* it was sent; every program of the farm is started at some time.
Fairness ==
  /\ \A c \in Clients : WF_vars(Accept(c)) /\ WF_vars(DisconnectRenderNode(c))
                        /\ WF_vars(ServerStep(c))
  /\ \A r \in Renderers : WF_vars(RendererStep(r))
  /\ \A c \in Controllers : WF_vars(ControllerRead(c))
FairSpec == Spec /\ Fairness
-----------------------------------------------------------------------------
(***************************************************************************)
(* Properties.                                                             *)
(***************************************************************************)

\* Every variable has its type; cropWindows, films and the channels included.
TypeOK ==
  /\ connections \subseteq Clients /\ alive \subseteq Clients
  /\ cropWindows \in Seq(CropWindow)
  /\ curFrame \in Int /\ nextFrame \in Int
  /\ jobFiles \in Seq(Job) /\ finished \in Seq(Job)
  /\ films \in [DOMAIN films -> SUBSET Windows] /\ DOMAIN films \subseteq Int
  /\ disk \in [DOMAIN disk -> SUBSET Windows] /\ DOMAIN disk \subseteq Files \X Int
  /\ listening \in BOOLEAN /\ faults \in 0 .. MaxFaults
  /\ type \in [Clients -> ClientType]
  /\ status \in [Clients -> RenderNodeStatus]
  /\ frame \in [Clients -> Int]
  /\ scene \in [Clients -> Scene] /\ failures \subseteq Failure
  /\ toServer \in [Clients -> Seq(ToServer)]
  /\ toClient \in [Clients -> Seq(ToClient)]

Task(m) == m.kind \in {"render_crop", "start_frame", "end_frame"}
Busy(r) == r \in connections /\ status[r] # "IDLE"

\* A render client has at most one task at a time, and an idle one none: a task
\* the server sent is the last message on its way to the client, whose answer is
\* complete (it ends with the request for the next task) before the next task is
\* sent.  So no request is ever served for a node that end_scene saw as idle.
OneTask ==
  \A r \in Renderers :
    /\ \A i \in DOMAIN toClient[r] :
         Task(toClient[r][i]) => /\ i = Len(toClient[r]) /\ toServer[r] = <<>>
                                 /\ (r \in connections => status[r] # "IDLE")
    /\ \A i \in DOMAIN toServer[r] :
         (toServer[r][i].kind = "request_render_task") <=> (i = Len(toServer[r]))
    /\ toServer[r] # <<>> => r \in connections /\ status[r] # "IDLE"

\* get_film is never asked for the film of a frame outside the front job, or
\* without a job: neither for a message of a client (pbr_svr.cpp:41, rpc_svr.cpp:58
\* and :63) nor by end_frame for cur_frame_ (pbr_svr.cpp:143).
FilmForEveryTask ==
  /\ \A r \in Renderers : toServer[r] # <<>> => jobFiles # <<>> /\ frame[r] \in DOMAIN films
  /\ \A r \in Renderers : LeavesFrame(r) /\ FrameAllDone(r) => curFrame \in DOMAIN films

\* The assertion of pbr_svr.cpp:65, at all times and for every busy renderer; and
\* the server never hands out windows of a frame past the end of the job, nor
\* ends a frame it did not hand out.
FramesInOrder ==
  /\ \A r \in connections : type[r] = "RENDERER" /\ Busy(r) => frame[r] <= nextFrame
  /\ jobFiles # <<>> =>
       /\ Head(jobFiles).begin <= curFrame /\ curFrame <= nextFrame
       /\ nextFrame <= Head(jobFiles).end

\* What the two invariants above rest on: a client that runs has its render_node,
\* only render clients ask for tasks, jobs
\* without frames are not queued, and a busy renderer is at a frame of the job at
\* the front, whose films exist (no film does without a job).
Roles ==
  /\ alive \subseteq connections
  /\ \A r \in Renderers : /\ type[r] = "RENDERER"
                          /\ \A i \in DOMAIN toServer[r] : toServer[r][i].kind # "render_scene"
  /\ \A c \in Controllers : \A i \in DOMAIN toServer[c] : toServer[c][i].kind = "render_scene"
JobsHaveFrames == \A i \in DOMAIN jobFiles : jobFiles[i].begin < jobFiles[i].end
FilmsOfFrontJob ==
  DOMAIN films # {} => jobFiles # <<>> /\ DOMAIN films = FramesOf(Head(jobFiles))
BusyInFrontJob ==
  \A r \in connections : type[r] = "RENDERER" /\ Busy(r) =>
    jobFiles # <<>> /\ frame[r] \in FramesOf(Head(jobFiles)) /\ frame[r] \in DOMAIN films

\* The inductive invariant: the server serves the front job only, one task at a
\* time to each client, in order of frames.
ServesFrontJob ==
  /\ TypeOK
  /\ OneTask
  /\ Roles
  /\ JobsHaveFrames
  /\ FilmsOfFrontJob
  /\ BusyInFrontJob
  /\ FramesInOrder

\* Samples go to the film of the frame they show: when add_sample arrives the
\* node is still at the frame that the client had set when it rendered the window.
\* They show that frame of the job at the front, unless the client's start of that
\* file failed: then they are of an earlier scene, as the client cannot tell.
SamplesMatchFilm ==
  \A r \in Renderers : \A i \in DOMAIN toServer[r] :
    toServer[r][i].kind = "add_sample" =>
      LET shown == toServer[r][i].scene
          file == Head(jobFiles).file
      IN /\ shown.frame = frame[r]
         /\ ~Failed(r, "startup", file) => shown = SceneOf(file, frame[r])

\* The windows kept in crop_windows_ are in scan order: after a window comes the
\* next one of the same frame, or the scan was over, and then a new scan or an
\* empty window follows.
ScanOrder ==
  \A i \in DOMAIN cropWindows :
    LET w == cropWindows[i]
    IN IF i = 1 \/ cropWindows[i - 1].place >= WindowsPerFrame - 1
       THEN w.place \in {0, NoArea}
       ELSE w = [frame |-> cropWindows[i - 1].frame, place |-> cropWindows[i - 1].place + 1]

\* No frame of a scene that ended is missing or blank on disk: next_frame_ only
\* leaves a frame behind when a node rendered a window of it and had it written.
EveryFrameOnDisk ==
  \A i \in DOMAIN finished : \A f \in FramesOf(finished[i]) :
    LET name == <<finished[i].file, f>> IN name \in DOMAIN disk /\ disk[name] # {}

\* The image of frame f of the i-th scene that ended is rendered again: by a scene that
\* ended after it, or by the one at the front.
RenderedLater(i, f) ==
  \/ \E j \in DOMAIN finished :
       i < j /\ finished[j].file = finished[i].file /\ f \in FramesOf(finished[j])
  \/ f \in DOMAIN films /\ Head(jobFiles).file = finished[i].file
CompleteOnDisk(i, f) ==
  LET name == <<finished[i].file, f>> IN name \in DOMAIN disk /\ disk[name] = Windows

\* While no client is lost the first frame of a scene that ended is complete on
\* disk until it is rendered again.  Only the first: a node that is still at frame f
\* may be given windows of frame f + 1, and its samples then go to the film of f.
FirstFrameComplete ==
  faults = 0 =>
    \A i \in DOMAIN finished :
      RenderedLater(i, finished[i].begin) \/ CompleteOnDisk(i, finished[i].begin)

\* As long as only one renderer has ever connected, and it is not lost, every frame
\* of a scene that ended is complete on disk until it is rendered again.
Solo == \E r \in Renderers : alive \cap Renderers \subseteq {r}
FramesComplete ==
  faults = 0 /\ Solo =>
    \A i \in DOMAIN finished : \A f \in FramesOf(finished[i]) :
      RenderedLater(i, f) \/ CompleteOnDisk(i, f)

\* The image end_frame writes is final: after its frame ended a film gets no
\* sample and its file does not change, whichever clients join or are lost.
EndedFrameIsFinal ==
  [][jobFiles' = jobFiles /\ DOMAIN films' = DOMAIN films =>
       \A f \in DOMAIN films : f < curFrame =>
         LET name == <<Head(jobFiles).file, f>>
         IN /\ films'[f] = films[f]
            /\ name \in DOMAIN disk /\ name \in DOMAIN disk' /\ disk'[name] = disk[name]]_vars

\* maInit does not refuse ("Init() has already been called", MAAPI.cpp:165): a client
\* that is told to start a scene has cleaned up the one before, unless the cleanup of
\* that one failed on it.
StartsClean ==
  \A r \in Renderers :
    Delivered(r, "start_render_scene") /\ HasRenderer(r) => Failed(r, "cleanup", scene[r].file)

\* A scene that some renderer has begun ends, when no client is lost and its cleanup
\* works, unless a controller was taken for a renderer: a controller that is
\* connected when another's job begins, and whose own first job has not arrived, is
\* sent the scene, never answers, and end_scene waits for it.
SceneEventuallyEnds ==
  \A c \in Controllers : \A j \in DOMAIN Script[c] :
    Script[c][j].file \notin BrokenCleanup =>
      (/\ jobFiles # <<>> /\ Head(jobFiles) = Script[c][j]
       /\ \E r \in Renderers : Busy(r)
       /\ \A k \in Controllers : status[k] = "IDLE")
        ~> (\E i \in DOMAIN finished : finished[i] = Script[c][j])

\* "svr will distribute new task for this client" (render_client.hpp:90): a
\* client that is connected while a job waits gets something to do.
EveryClientGetsTask ==
  \A r \in Renderers : (r \in connections /\ jobFiles # <<>>) ~> Busy(r)
=============================================================================
