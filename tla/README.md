# A TLA+ model of mid-autumn

mid-autumn is a physically based renderer with a distributed front end: a
*server* (`pbr_svr`) queues the scenes that *controllers* (`pbr_ctrl`) submit
and hands out crop windows of their frames to *render clients* (`pbr_clnt`),
which send back samples. This directory models the parts of the program that
carry state, checks them with TLC on small instances and proves the main
invariants with TLAPS for all instances.

Paths below are relative to the repository's root (`src/src/...` in PROJECT.json is
`src/...` here).

## 1. Inventory

| Part | Code | State | Operations | What makes it correct |
|---|---|---|---|---|
| Render server | `src/pbr_svr/`, `inc/pbr_svr/` | `connections_`, `crop_windows_`, `cur_frame_`, `next_frame_`, `job_files_`, `films_`; per `render_node` type, status, frame | accept, disconnect, `render_scene`, `request_render_task` (grant a window, end the frame, start the next one, go idle, end the scene), `add_sample`, `write_image` | a film for every message; samples in the film of the frame they show; frames begin and end in order; every frame on disk; scenes end |
| Render client | `src/pbr_clnt/`, `inc/pbr_clnt/` | loaded scene, its frame | `render_crop`, `start_frame`, `end_frame`, `start_render_scene`, `end_render_scene` | one answer per task; a scene is cleaned up before the next starts |
| Controller | `src/pbr_ctrl/`, `inc/pbr_ctrl/` | lua script | `render_scene` | its jobs are rendered in order |
| Connection and rpc dispatch | `inc/core/net.hpp`, `inc/core/dispatcher.hpp` | write queue, reads and writes under way | `async_write`, `async_read`, their handlers, `handle_rpc` | messages arrive once, in order; no write is left behind |
| Wire format | `inc/core/serialization.hpp`, `inc/pbr_net/pbr_rpc.hpp` | none | encode, decode | decoding inverts encoding |
| Fixed-size pools | `inc/core/memory/details/fixed_pool_impl.hpp` | free list, pages, reference counts | malloc, free, `release_memory`, `purge_memory` | no block handed out twice; unused pages can be released |
| General pools | `inc/core/memory/memory_pool.hpp`, `details/intrusive_rbtree.hpp` | boundary tags, four places of free blocks, one of them a red-black tree; pages of buckets for small blocks; locks | alloc, free, realloc, release of memory; insert, erase, searches | blocks tile their regions; each free one is in one place and merged with its neighbours; the best fit is found; no lock is taken twice |
| Scene description API | `src/pbr/MAAPI.cpp`, `src/pbr_ext/script.cpp` | API state, transform and attribute stacks | init, world begin/end, attribute and transform begin/end, clean up | stacks nest |
| Film, sampler, scene | `inc/pbr/ImageFilm.hpp`, `LDSampler.hpp`, `Scene.hpp` | pixels, sampler position | reset to a window, next sample, add sample, write | the windows of a frame leave no pixel without its samples; a window is walked once; samples reach the pixels that the filter reaches |
| kd-tree | `src/pbr/KdTree.cpp` | nodes | build, intersect | finds what a linear search finds |
| Parallel helpers | `inc/core/parallel_compute.hpp` | counter of logical ids | enter, leave | ids of live workers differ |
| Numeric rendering code | integrators, materials, shapes, textures | none of its own | - | not a matter of states |
| Core templates | `ptr_var`, `MAny`, `AssocVector`, `TypeMap`, `Singleton` | - | - | - |
| Other programs | `inc/pipeline`, `clpbr`, `eop`, `fp` | - | - | experiments, not part of the renderer |

**Interactions.** A client or controller connects over TCP. Both sides own a
`Connection` with a queue of serialized rpcs. The server runs one `io_service`
in one thread; each received rpc is dispatched by its number and handled to
completion, and so is each one a client receives. Every rpc is one way; a client asks for work with
`request_render_task` and gets exactly one task for it, except that the server
starts an idle client with `start_render_scene` and `start_frame` when a job
begins.

**Hard behaviours.** Several clients move through the frames at different
speeds, while one pair of counters (`cur_frame_`, `next_frame_`) and one list of
windows serve them all; a scene ends when *no* node is busy, which is decided
from flags while messages are under way; clients join in the middle of a job,
disappear, or answer nothing because a script failed; a client whose script fails as
a scene starts or ends goes on with what the scene before has left, and tells nobody;
scripts fail on the server too, which leaves a job without films; the end of a scan over the image
is found by comparing coordinates that are sums of floats, and an extra empty window
follows it; a pixel's number is found by a rounding that is off at odd integers; memory pools keep
their lists inside the blocks that others write to, and find neighbours through
tags that each operation must leave right.

## 2. Modules

| Module | Models or proves |
|---|---|
| `RenderFarm` | server, clients, controllers and the channels between them |
| `MCRenderFarm` | instances for TLC: clients and scripts |
| `InductionLemmas` | induction over the naturals as a statement about sets, and recursive functions from it |
| `RenderFarmProofs` | types, the inductive invariant of the farm and what follows from it, the order of the scan, the scene a client has loaded, the images on disk |
| `Channel` | what `RenderFarm` takes one direction of a connection to be: a FIFO |
| `Connection` | one direction of `net::Connection`: write queue, stream, reads |
| `MCConnection` | instances for TLC: three messages and their sizes |
| `ConnectionProofs` | the inductive invariant of a connection; it implements `Channel` |
| `CropWindows` | one frame as pixels: the cuts of a scan, the sampler's walk, the film |
| `CropWindowsProofs` | proofs about the walk, the pixels of a sample and the complete image |
| `Allocator` | what a pool of fixed-size blocks promises |
| `FastPool`, `SmallPool`, `ListPool` | the three pools that `fixed_pool` chooses from by size |
| `BucketPool` | `small_memory_pool`, the pages of buckets for small allocations |
| `PageLists` | the lists of pages these four keep |
| `PagePools`, `MCPagePools` | the four of them behind one choice, as an `Allocator`; instance for TLC |
| `PagePoolsProofs` | the inductive invariants of the four pools, and that they are allocators |
| `PoolGeometry` | the compile-time search for a page size |
| `PoolGeometryProofs` | proof of what the search finds |
| `Heap` | what a pool of blocks of any size promises |
| `BigPool` | `big_memory_pool`, with its lock |
| `BigPoolProofs` | its inductive invariant, what follows from it, and that it is a heap |
| `OrderedBag` | what the tree of free blocks promises |
| `RBTree`, `MCRBTree` | `intrusive_multi_rbtree`; instance for TLC |
| `RBTreeProofs` | its inductive invariant, the colours, the searches, the ends of the loops, and that it is an ordered bag |

**How they fit together.** `Connection` implements `Channel`, which is why
`RenderFarm` may use sequences for its connections. A window is its place in a scan in
`RenderFarm`, and a rectangle in `CropWindows`, which shows that the places
of a scan are all of the image. `RBTree` implements `OrderedBag` and searches
right (`SearchesRight`), which is why `BigPool` may take the tree for a set of blocks and
its best fit for any block of the least size that fits.

### RenderFarm and the code

The variables have the names of the code (`connections`, `cropWindows`,
`curFrame`, `nextFrame`, `jobFiles`; `type`, `status`, `frame` of each
`render_node`). `films` keeps, for each frame of the front job, *which* windows'
samples it has; `disk` what the last write of each image had. `toServer` and
`toClient` are the connections: FIFO, reliable until the client is lost.
`scene` is what a client's lua state and scene API hold: the file whose functions (`startup`,
`frame`, `cleanup`) are the globals, the file whose `startup` made the options that a
renderer is built on, and the frame they are set to. The first two differ after a cleanup, and when a script failed.
It travels with `add_sample` in the model so that a property can say what a sample
shows; no action of the server looks at it. `failures` is a history: on which client which
file failed to start or to be cleaned up.

| Action | Code |
|---|---|
| `Accept`, `AcceptFails` | `pbr_svr::handle_accept`; a controller's script then submits its jobs |
| `LoseClient` | the process ends or its connection breaks |
| `DisconnectRenderNode` | `disconnect_render_node`, from a failed read or write |
| `RenderScene` | the `render_scene` rpc, with `do_render_scene` when the queue was empty |
| `GrantCropWindow`, `EndCurrentFrame`, `StartNextFrame`, `GoIdle`, `EndScene` | the five ways through `request_render_task` / `getNextCropWindow`, each with `end_frame`, `end_scene` and the following `do_render_scene` that it calls |
| `TakeSample`, `TakeWriteImage` | `add_sample` and `write_image` |
| `DoRenderCrop`, `DoStartFrame`, `DoEndFrame`, `DoStartRenderScene`, `DoEndRenderScene` | the client's handlers when their scripts succeed |
| `TaskFails` | `render_crop` and `start_frame` when the frame script fails or there is no renderer: no answer |
| `StartSceneFails`, `EndSceneFails` | `start_render_scene` and `end_render_scene` when `run_file`, `startup` or `cleanup` fails: the failure is dumped and the handler goes on |
| `ControllerRead` | a controller drops rpcs that its table does not have |

Abstractions. A window is its frame tag and its place in the scan; places
`0 .. WindowsPerFrame - 1` tile the image and `NoArea` is the window of no extent
that the scan pushes when it is over; its samples are sent, and are counted for no place.
All samples of one window are one message, so that a film that writes itself after
`writefrequency` samples does so, or not, as it takes a message (`TakeSample`).
A scene file is a name; `BrokenStartup` and `BrokenCleanup` are the files whose scripts
fail on the server.

On a client any script may fail, each time at the cost of a fault. `run_file` defines all of a file's
functions or none: after `StartSceneFails` the globals are those of the file named or
those of the last one, and the `startup` that is there made options or did
not. Options that are incomplete count as none. On a client that was not cleaned up,
a `startup` that calls `maInit` makes none: `maInit` refuses a second call by throwing
(`MAAPI.cpp:165`). If lua turns that into a failed call, the old options stay (`StartSceneFails`, which then
needs no fault of its own); if it reaches `main`, the process ends (`LoseClient`). The samples of an
old scene are taken to fit the film of the new one.

### Connection and the code

`queue` is `msg_queue_`, whose front is being written. An asynchronous write is a
record in `inflight`: the chunks the stream has not taken and the message whose
handler `boost::bind` put into it. `stream` is what the socket holds, `reading`
which asynchronous read is pending and `inbound` how many bytes it waits for.
`sent`, `received` and `failed` are histories.

| Action | Code |
|---|---|
| `AsyncWrite` | `async_write`: queue, and write at once if the queue was empty |
| `Transmit` | boost and TCP take a header or a message's bytes (external) |
| `FrontWritten`, `WriteFails` | the two ways through `async_write_handler` |
| `HandleReadHeader`, `HandleReadData` | the read handlers; the latter with the `handle_read` of the endpoint, which dispatches the rpc and reads on, or not if `receive_rpc` failed |
| `ReadFails` | `handle_read` with an error, which reads no more |
| `Break` | the peer or the network (external) |

`ReadsOn` tells the endpoints apart: a controller reads on after an rpc that it
could not read, a client and the server do not. A message is two chunks,
because boost's composed `async_write` and `async_read` put smaller pieces
together. `Channel` is instantiated with "sent and not received" as what is in
transit.

### CropWindows and the code

Places in the image are in quarters of a pixel: a filter's width and a sample's
position within its pixel are, and the sums of floats at which windows are cut may be
one more than the multiple of the step they stand for, or one less than the end. A cut
that is exact, a little more or (at the end) a little less is all that matters to
the roundings that follow. `Cuts` is every such outcome, chosen at the start.

| Action | Code |
|---|---|
| `GetNextCropWindow`, `GetEmptyWindow`, `EndFrame` | the ways through `pbr_svr::getNextCropWindow` within one frame |
| `RenderCropWindow` | `Scene::renderCropWindow`: film and sampler are reset to the window |
| `NextSample` | `LDSampler::getNextSampleImpl` and `ImageFilm::addSampleImpl` on the server's film |
| `WindowDone` | the sampler has no more samples, so that `write_image` and the next request are sent |

`pixels` counts the samples by the place they were taken at, inside the image and
around it; the weights and colours are left out. `RoundEven` is what `fistp` does to
a half: `MA_FAST_MATH` is defined without condition (`MAConfig.hpp:22`), so that
`floor32` and `ceil32` are those of `MAMath.hpp:226`.

### The page pools and the code

| Module | Code | State |
|---|---|---|
| `FastPool` | `fixed_pool_impl_fast_segregate`, blocks over 8 bytes | page list, reference counts, one free list; blocks are numbered in the order of carving, from the page's end |
| `SmallPool` | `fixed_pool_impl_small_segregate`, 2 to 8 bytes | page list, reference counts, first free block of each page, and the contents of blocks, where the free lists are |
| `ListPool` | `fixed_pool_impl_small_list`, 1 byte | page list, full buckets of each page, its list of other buckets, their lists of free blocks |
| `BucketPool` | `small_memory_pool` of `memory_pool.hpp` | a list of pages per size, the bucket of each page, its free blocks |

Actions are `malloc` (with a new page, or without), `free` and `release_memory`
or `purge`; in `SmallPool` the holder of a block may write to it (`UserWrites`). `holders` is
a history: how often a block is handed out. `page_list_` is a sequence
(`PageLists`). In `ListPool` and `BucketPool`, lists are sequences and not numbers or pointers in
blocks, which `SmallPool` shows how to keep. A behaviour of `PagePools` is that
of one pool: `kind` is the choice by size. These pools have no lock of their own; each
is used by one thread, or under the lock of its singleton.

`PoolGeometry` is an algorithm, not a system: `MinimumK` is the template
recursion, `size` goes through the block sizes. `FastPool`'s assumption that a
page has at least one block is what `FirstBlockFits` says.

### BigPool, RBTree and the code

`pool` is a record of all that `big_memory_pool` keeps: the headers of blocks by address,
`cached_block_`, `mr_block_`, the small free list, the tree, and the pages it has
from the system. Its helpers (`Split`, `Merge`, `AddFreed`, `AddSplit`, `Recycle`,
`InPlace`, ...) are functions from pools to pools, one for each function of the
code or branch of one; an action (`Alloc`, `Free`, `ReallocInPlace`, `ReallocElsewhere`,
`ReleaseMemory`) applies them as the call does. `LocksTwice` is what the calls do with a mutex when they
would lock it again. `mutex` is the template argument. Two things
are bounded by what the code leaves open: where the system puts a region
(`NewRegion`, any free pages) and which of several equally large blocks is found.

In `RBTree`, `t` has the fields of `node_base` for each node in the tree and for the sentinel
`mHead`; `fixup` says which loop runs and where. `Insert` and `Erase` are the calls up to
the loop, `InsertFixup` and `EraseFixup` one turn of it, `InsertDone` and `EraseDone` what
follows. The sentinel's parent is written by whatever touches a missing child, and
read by `erase_fixup`, as in the code. `Hang` is the three assignments (parent's child, node's
parent and side) that rotations, insertion and substitution are made of. The descents
and ascents of the code (`Begin`, `PredOrSucc`, `LowerBound`, `UpperBound`, the place of an
insertion) are recursive functions over the nodes in the tree.

## 3. Runs

| Run | Instance | Shows |
|---|---|---|
| `farm` | 2 renderers, 2 controllers with jobs a (frames 0, 1) and b (frame 1), in any order, and one without frames; 3 windows; the cleanup of b fails on the server; no other faults; fair | the inductive invariant; one task per client; scan order; the first frame is complete, and every frame while one renderer works alone; a scene that began ends |
| `farm_faults` | 2 renderers, 1 controller, jobs a (frames 0, 1), b (frame 1) and c, whose startup fails on the server, 2 windows; one fault: a client lost (it may reconnect), a client's `run_file`, `startup`, `frame` or `cleanup` that fails, an accept that fails | the inductive invariant; a film for every message; samples in the film of the frame they show, and of the front scene unless the client failed to start it; a client that starts a scene has cleaned up, unless its cleanup failed; frames are handed out in order, are on disk, are final |
| `idle_client` | 2 renderers, 1 controller, jobs a and b, 2 windows, fair | *violated:* a client that connects while a job waits gets a task |
| `connection` | 4 messages (two sizes, one malformed, which stops the receiver), the connection may break anywhere, fair | one write at a time; framing; the inductive invariant; a failed message was not received; `Channel`; delivery unless it breaks or the receiver stops |
| `crop_windows` | 9 by 8 pixels in steps of 4, filter 2 by 3/4 pixels, 2 samples per pixel, the film writes every 50 samples, one empty window | the frame has the samples that its pixels need, none twice but where windows meet; a sample goes where the filter reaches; the sampler gives what it announces |
| `page_pools` | fast: 3 pages of 3 blocks; small: 2 pages of 3; list: 3 pages of 2 buckets of 2; buckets: 3 pages, two sizes, of 3 and 2 blocks | `Consistent` (types, lists and counts agree with use, free lists survive what holders write); carving in order; no room lost; what `release_memory` gives back; `Allocator` |
| `pool_geometry` | sizes 9 to 5000, 4096-byte pages, 64-bit pointers | what the search computes, in closed form |
| `pool_large` | the same | *violated:* one block fits in a page |
| `big_pool` | header 2, free block 3, 2 system pages of 30, requests of 4, 9, 15 and 24, with either mutex | blocks tile the regions; each free block in one place; free blocks are merged; when a tag goes stale; release leaves one region; `Heap` |
| `big_pool_tags` | the same | *violated:* tags point to the block before |
| `big_pool_lock` | the same | *violated:* no thread waits for itself |
| `rb_tree` | 10 nodes of different keys, or 7 with a ring of 3 | links agree; red-black but for the node a loop is at; searches; the loops end; `OrderedBag` |

Deadlock is checked for the page pools and the tree, and not elsewhere: the farm
stops when all scripts are done and the clients are idle, a connection when everything is
delivered, `CropWindows` at the end of its frame, `PoolGeometry` at the largest
size, and `BigPool` is not followed further once it hangs or a tag is wrong (`Works`),
since what it does then depends on memory that is not its own.

**Why these bounds.** Two renderers are what it takes for one to be behind
another, for one to be idle while the other works, and for one to join late; two frames
in a job is what it takes for `nextFrame` to run ahead of `curFrame`; the second
job has the number of an old frame, so that a stale window, frame or file would
be mistaken for a new one. Two windows separate the first from the last of a
scan; `farm` has three so that a scan has a middle. One fault is one
lost client, one failing script or one failing accept, at any moment; what follows from it
(tasks without a renderer, a start refused on a client that was not cleaned up) costs no
other. `MaxFaults` is the only counter bound of the model, since
scripts are finite. The symmetry of `farm_faults` permutes renderers, in a run
without liveness properties.

Four messages put two behind the front while a third is being read, and let
one be queued after a write has failed; the malformed message may be any of them.
`MaxSent` bounds only the history.

9 by 8 pixels in steps of 4 have a side that is a multiple of the step, where a sum
of floats may leave a sliver, and one that is not and is odd, where the rounding
is off. The filter reaches two pixels in one direction and less than one in the
other. 50 samples are fewer than those of most windows, so that the film writes in
the middle of windows. `MaxEmpty`: the empty windows are all alike.

Three blocks in a page are one carved first, one last and one between; three
pages are an unused page behind a used one behind an unused one, which is what
`release_memory` treats differently in the pools. In the small pool contents
multiply the states, so it has two pages. Pages are symmetric in this run, which
has no liveness properties. All sizes that the search for a page size treats alike are below 5000: larger
ones behave like 4216.

In `big_pool` a page has room for four blocks of the least size; a request may be small
or large for the tree, fill most of a page or need one of its own; two pages may be two regions
or one, so that the system can run out of memory with one in use. Two freed
blocks around a used one, with a cached one, is what the cases of `add_free_block` and
`realloc` tell apart.

Ten keys are the fewest for a deletion that moves a missing black more than
one level up. A ring of three has a middle. `MCView` leaves out the parent of the
sentinel except while `erase_fixup` is at a missing child: nothing else reads it,
so that states that differ in it alone have the same successors, up to it, and
satisfy the same properties.

**Fairness.** `FairSpec` of `RenderFarm` has weak fairness of each client's handlers, of the
server's handlers per connection and of accept: `io_service::run` invokes each
ready handler, TCP delivers what was sent while both ends live, and every program of
the farm is started at some time. There is none for faults. `FairSpec` of
`Connection` has weak fairness of the stream and of the three completion
handlers, and none of `AsyncWrite`: nobody need send a second message to get the first
one delivered. The other modules are sequential code, where what must
come to an end is said by an action property: `TurnsEnd` of `RBTree` bounds the
turns of the loops, `WalksOnce` of `CropWindows` the samples of a window.

**Mutants.** Beside some definitions stands a variant marked *Mutant*: a
plausible mistake (a dropped clip, an off-by-one, a forgotten answer). Each
property of a passing run is violated when the definition is replaced by such a
variant.

## 4. What the runs found

* A client that connects after the front job began gets nothing to do until
  the next job begins, and a job submitted while no client is connected is never
  rendered (`idle_client`). `render_client.hpp:90` says the server will
  distribute a task to this client, and has the request that would ask for it
  commented out.
* A controller that is connected when another's job begins, before its own first
  job has been read, is taken for a renderer (`rpc_svr.cpp:34` sets the type only
  then): it is sent the scene, never answers, and counts as busy. If its first
  job arrives after the last renderer has become idle, nobody calls `end_scene`
  again, and the queue stops. `SceneEventuallyEnds` excludes this case.
* `FirstFrameComplete` holds for the *first* frame only, and `FramesComplete`
  with a renderer that works alone only. A node at frame f can be handed a window tagged f + 1,
  because windows are tagged with `next_frame_`; its samples go to the film of f.
  The code promises nothing else, so this is stated as a boundary of what holds.
* A client dumps a failed `run_file` or `startup` and goes on (`render_client.cpp:9`). If the file of the
  second scene is missing on it, the functions of the first one are still its globals:
  it renders the first scene, its samples go into the film of the second, and the server cannot
  tell. `SamplesMatchFilm` says what holds: the *frame* is right always, the scene unless
  that client's start of it failed. After a failed `cleanup` (`:20`) the next
  start meets `maInit`'s refusal, and the client keeps the old options or exits:
  `StartsClean` says that nothing else makes a client start on an old scene.
* `handle_read_header` passes the wrong error code for a header that does not parse
  (`net.hpp:117` passes the success of the read, so the last message would be
  dispatched again). `Framing`, proved below, says that this branch is never taken.
* After a write error (`net.hpp:85`) the failed message stays at the front of the
  queue, so later messages are queued behind it and none of their handlers is
  ever called. `FailedNotReceived` says what one may rely on: the one message
  reported is not one the receiver has.
* `MinimumK` does not find the minimum its comment promises
  (`fixed_pool_impl.hpp:52`): `MinimumKImpl` returns the smaller *number* of pages,
  so the result is the first number that wastes no more than 33 pages would
  (`FirstNoWorse` says what it is; it contradicts that comment).
* For blocks of 4065 to 4088 bytes and from 4216 bytes on it therefore finds one
  page, in which no block fits beside the page's header; the first `malloc`
  would fail the assertion at `fixed_pool_impl.hpp:198` (`pool_large`).
* The pool for single bytes gets a new page when its front page is full, "no
  free space" according to `fixed_pool_impl.hpp:501`, although a page behind it may have
  some; `release_memory` gives such pages back once they are unused.
* `release_memory` of the pool for larger blocks may leave unused pages behind a
  page in use, without free blocks. They are not lost: `ReleasesUnused` says that all is
  returned once all is freed, as the destructor asserts, and `NoRoomLost` that
  pages in use keep their room.
* `tree_realloc` of the big pool moves a block back over the free one before it, and takes the
  free one behind it along. If that is `cached_block_`, the block behind keeps a tag
  that points into the middle of the merged block (`memory_pool.hpp:671`; the
  other branch sets it, and `checkValid` asserts it, `:137`): `big_pool_tags`.
  `TagsGoStale` says that this is the only way a tag goes wrong.
* With the pthread mutex, `tree_alloc` calls `release_memory`, and `tree_realloc`
  calls `alloc` and `free`, while they hold the lock that these take
  (`memory_pool.hpp:574`, `:699`): the thread waits for itself (`big_pool_lock`).
* The destructor of the big pool asserts that tree and list are empty after `release_memory`,
  which holds (`ReleaseLeavesOne`); one region stays, as `mr_block_`, and is not given back.
* `floor32` and `ceil32` are off by one at odd integers: a film of odd resolution
  has a column or row more than was asked for. Server, windows and sampler
  use the same functions, so that they agree (`FrameComplete`).
* The sums of floats that cut a scan need not come to 1 where they should: at 1537 pixels, for one, a
  sliver of a window follows, which is sampled as far as the filter reaches even when
  it has no pixel of its own. Samples around the places where windows meet, and at the
  far edge, are taken more than once, so `FrameComplete` allows it there and nowhere else.
* A filter of half a pixel or narrower would give a window without extent no
  place to sample; the sampler compares with the end of its range and would walk past
  it. `CropAssumption` excludes it.

## 5. Proofs

`RenderFarmProofs` proves, for all clients, scripts, numbers of windows,
broken scripts and numbers of faults, from the assumptions named in `RenderFarm`
(renderers are not controllers, jobs are well typed, there is at least one window):

* `ServesFrontJobHolds`: `Spec => []ServesFrontJob`, the inductive invariant;
* `TypeCorrect`, `OneTaskHolds`, `FramesInOrderHolds`: conjuncts of it;
* `FilmForEveryTaskHolds`: `get_film` finds a film in every handler that calls it.

**The argument.** `FilmForEveryTask` is not inductive. That a message finds a
film needs that its sender is busy and that busy nodes are at frames of the
front job (`BusyInFrontJob`); the latter survives the end of a scene only
because no busy node is left then and idle nodes have nothing under way
(`OneTask`); a node moves to `next_frame_`, which must stay in the job
(`FramesInOrder`, which needs jobs to have frames: `JobsHaveFrames`). `Roles`
separates renderers, whose nodes never become controllers, from controllers,
which send nothing but jobs. `ServesFrontJob` is the conjunction. Each conjunct has a lemma in
which each action is a step; the lemmas about channels (`Orderly...`) say what
appending, answering and receiving do to a channel that obeys `OneTask`.
TLC checks `ServesFrontJob` in `farm` and `farm_faults`.

The same module has `ScanOrderHolds`. Its invariant `ScanInv` adds that a scan which is not
over is of `next_frame_` and its job is at the front, so that the next window
granted continues it.

It also proves what the images rest on, under the same assumptions:

* `SamplesMatchFilmHolds` and `StartsCleanHolds`. `ScenesLoaded` follows each busy
  renderer from the moment it is told to load: it is at the node's frame, of the front file
  unless its start of that file is among the `failures`, or
  the messages on their way will bring it there (`Loaded`), and what it
  sends shows that frame. `CleanScenes` is the same for cleaning up: in
  a client's incoming messages each start of a scene comes after the end of the
  one before, and a client holds no options then but those of a scene whose
  cleanup is among the `failures`.
* `EveryFrameOnDiskHolds` and `EndedFrameIsFinalHolds`: no image of a scene that ended is
  missing or blank, and none changes once its frame ended. `ImageInv` says that
  every frame before `next_frame_` has samples and was written
  (`FilledBefore`); a node can leave a frame behind only after `end_frame`, which the
  server sends only to a node that rendered and wrote (`NodesFill`, by the status of
  the node and the last messages it sent); no busy node is at a frame before
  `cur_frame_` (`NotBehind`), which is why a film is final once its frame ended.
* `FirstFrameCompleteHolds` and `FramesCompleteHolds`. `FrameInv` is an invariant as long
  as nothing failed, when no script has either (`NoFailures`) and every renderer that has a task
  has options to render with. For the frames it covers it follows each window: its samples
  are in the film, or a busy node at this frame has the window, its samples or the
  request for it in a message, or the scan has yet to reach it (`AllRendered`). What a film has is on disk
  or will be, by a `write_image` on its way or by `end_frame` (`SamplesWritten`, `OnDisk`).
  The first frame is covered because a window tagged with it is granted only to nodes
  at it. With one renderer every frame is, since its node is at
  `next_frame_` whenever it is busy (`SoloAtNext`).

`ConnectionProofs` proves, for all messages, sizes and bounds:

* `WrittenInOrderHolds`: `Spec => []WrittenInOrder`, the inductive invariant;
* `OneWriteInFlightHolds`, `FramingHolds`, `FailedNotReceivedHolds`;
* `ConnectionIsChannel`: `Spec => AsChannel!Spec`, the refinement.

The argument: the stream is a window of the infinite sequence header 1, data 1,
header 2, data 2, ... of what was sent. It begins after the `Taken` chunks that were read
and ends where the front message's write has got to (`StreamLength`), and each
place in it holds the chunk of that number (`StreamChunks`). `Framing` is the parity of
`Taken`; that received messages are the sent ones follows by taking the
chunk at the next place (`NextChunk`). `ReceivedBound` is what makes
`FailedNotReceived` inductive: a message that has chunks left is not received.

`CropWindowsProofs` proves, for every size of image, step, filter and number of
samples that `CropAssumption` allows:

* `WalksOnceHolds`. The invariant `WalkInv` counts: what was taken is the number of
  samples of the rows and pixels before the sampler's place, plus those of this
  pixel (`Walking`). That a walk has a place at all (`Width >= 1`) rests on `ScanTyped`, the
  cuts being in order, and on the roundings being monotone.
* `AddedWithinReachHolds`: the pixels of `Raster` are those within the filter's width,
  give or take what the rounding to even moves, or the corner that is nearest.
* `FrameCompleteHolds`. `CoverInv` counts the samples of each place: those of every
  finished window whose extent has it, and those of the window that is
  walked if the walk has passed the place (`Passed`) or is at it (`Standing`). That the count is
  not zero anywhere in the image at the end rests on the extents of two windows side by side
  meeting (`ExtentsCover`), that it is one away from the cuts on no other extents
  reaching there (`ExtentsApart`); both are about what the roundings do at a cut,
  and allow for every outcome of the sums of floats.

`PagePoolsProofs` proves, for all pages and numbers of blocks, each pool apart:

* `PoolsInvHolds`: `Spec => []PoolsInv`, the inductive invariants of the four pools;
* `ConsistentHolds`, `NoRoomLostHolds`, `CarvedInOrderHolds`: what the runs check follows from it;
* `ReleasesUnusedHolds`: what `release_memory` gives back;
* `ImplementsAllocatorHolds`: `Spec => ImplementsAllocator`, the refinement.

The argument, by kind. `FastState`: what is free and what is handed out of
a page are together its first n blocks, and if it has more to come, the n-th is the last
of the free list (`FastCarved`), which is where `malloc` goes on carving. It is stated of any list, counts and holders, as `malloc`
with a new page passes through a state in between. `SmallLinked`: for each page there
*is* a list of its free blocks, without repetition, whose members' contents are the numbers of the next
ones; this list is not a variable, it is what the walk in `SmallPool` finds
(`SmallChain`). Holders write to their blocks only, which are on no such list. `ListPage`:
the buckets of a page that are not full are on its list, each with the list
of its free places. `BucketPage` is the same for one level, with
`Behind`: pages that are full are behind those that are not, so that looking at the front
page suffices. All four rest on lemmas about the recursive `Without`: it keeps
the order and drops nothing else. `AllocatorStep` is how each step changes `holders`.

`BigPoolProofs` proves, for both mutexes and all sizes of headers, pages and requests that
`SizesAssumption` allows (a page has room for a region's two headers, the list node it ends with
and a block that is not small: 4096 bytes or more in the code, against less than 400):

* `BigInvHolds`: `Spec => []BigInv`, the inductive invariant;
* `ConsistentHolds`, `FiledHolds`, `CoalescedHolds`: what the runs check follows from it;
* `TagsGoStaleHolds`: the one way in which a tag goes wrong;
* `ReleaseLeavesOneHolds`: what the destructor asserts;
* `ImplementsHeapHolds`: `Spec => ImplementsHeap`, the refinement.

The argument. `Filed` and `Coalesced` are not inductive: an operation takes a free block out of
one of the places by its *size*, and finds its neighbours by sizes and tags, so that all of
this has to be right of every block. `BigInv` says of the headers by address that each is followed by
another or ends its region (`Linked`, `Regioned`), that the free ones are those in the
four places (`Filing`), that none of them meet (`Apart`), and that each holder has a block of
its own that is large enough (`HeldBy`). `Kept`, the first three, and `Apart` have a
parameter each, a set of blocks: those between places, and those that may meet another. Operations
compose these steps: `EraseFreeBlock` moves a block into the set and
`InsertFreeBlock` out of it, `Merge` and `Split` change `Linked` (`Merges`, `Splits`),
and each function of the code has a lemma saying what it does to both sets (`ReorganizeKeeps`,
`AddFreedKeeps`, `FromPoolAllocates`, `NewRegionAllocates`, `UncacheKeeps`). Tags are not in the invariant, since realloc breaks them:
each lemma keeps `Tagged`, or allows one wrong tag in between (`TaggedBut`), and
`TagGoesWrong` is the one case where none does. The case has its own lemma (`MovedResizes`): there
the pool is what it would be with the right tag, but for that tag. For
`Consistent`, regions are related to pages (`RegionPages`) and a region's last block reaches its
tail, up to the part of a page that the code leaves over. For `ReleaseLeavesOne`, without a block in use every
region is one free block, as free ones do not meet, so that it is in the tree (`UnusedAllFree`), and
the sizes that `release_memory` compares add up to what the blocks cover, which is no more
than all memory (`SumBounded`).

`RBTreeProofs` proves, for all sets of nodes and all keys that are naturals (`NodesAssumption`, whose rest is that
nodes, null and the sentinel are told apart), with any number of nodes of one key:

* `InvHolds`: `Spec => []IInv`, the inductive invariant;
* `ConsistentHolds`, `RedBlackHolds`, `SearchesRightHolds`: what the runs check follows from it;
* `TurnsEndHolds`: each turn of a loop that another follows has gone up;
* `ImplementsOrderedBagHolds`: `Spec => ImplementsOrderedBag`, the refinement.

The argument. `Consistent` says how neighbours refer to each other and `RedBlack` counts along the
paths; nothing in them says that all nodes are below the root once, or that keys are
in order, and neither survives a rotation alone. `IInv` therefore says that there is a function `sub` giving
the nodes below each place (`Tree`: what is below a node's children, with the keys on their sides of its
own), a function `bh` counting black nodes (`Weighted`: equal on both sides of each node, but for one
place, at which `erase_fixup` stands and which counts one more), that no red node has a red
parent but where the loop is (`Reds`), that `fixup` is at a place in the tree (`Fits`), and
that there is a list `w` of all nodes, sorted by key, along which the rings go (`Enumerates`). None of the three
is a variable; each step's lemma says what becomes of them: a rotation changes `sub` at two nodes
(`RotateTree`) and leaves `w`; an insertion puts the node at one position of `w`
(`InsertAt`), an erasure takes it out, whether the node is on a ring, heads one, is exchanged with its successor
or substituted by a child. The cases of `insert_fixup` and `erase_fixup` are lemmas of their own (`RecolourFault`, `RotateFault`,
`BlackSiblingLacks`, `FarRedLacks`, `MendSound`, ...), each from a tree with a fault at one place to one with it
at another, or without.
For what the recursive definitions compute, `TreeInduction` shows by induction over the size of subtrees
what holds of a node if it holds of its children: that a search defined over
the tree returns the least node of those asked for (`Finds`), that the walk from `begin()` is the list
`w` (`WalkLists`), and that a depth decreases where a turn goes up (`UpTwo`, `TurnsEnd`).
`IInv` has quantifiers over functions and sequences, which TLC cannot enumerate; what `Consistent`,
`RedBlack` and `ImplementsOrderedBag` require of the same states is checked by `rb_tree`.

`PoolGeometryProofs` proves `FirstNoWorseHolds` for all sizes, from
`GeometryAssumption` (a page of the system has room for a header). `SearchEnds` shows that
the recursion of the templates defines a function, as each number of pages refers to the next
and there is a last; `FindsFrom` is the claim for the search from k pages on, by
induction from the last down.

**Induction.** The prover cannot instantiate a theorem that has an operator as a parameter, so
`InductionLemmas` states induction for sets of naturals (`SetInduction`), which follows from
the order being well founded, and that a recursion over a range defines a function
(`RecursionOverRange`). The lemmas about recursive functions over data rest on these two.

**Model-checked only.** `SceneEventuallyEnds` and `DeliversAll` depend on fairness,
which is out of the prover's reach. All other properties of the passing runs are theorems.

## 6. Not modelled

See the `components` of PROJECT.json for each part and its reason. In short:

* Numeric code (integrators, materials, shapes, textures, film weights, the kd-tree's costs) has
  no protocol: what is right about it is a matter of numbers.
* The byte format of rpcs is abstracted to messages; a message of 4 GiB, whose size
  `net.hpp:53` cannot put into a header, is not one.
* Lifetimes of C++ objects bound into asynchronous handlers are not represented.
* The scene description API (`MAAPI.cpp`) is called by one script in one thread, and
  throws when calls come out of order. A scene script is one step of `RenderFarm` that succeeds
  or fails, with what the farm can tell of a failure: which functions and options a client is left with.
* The parallel helpers are loops in this build: `MAConfig.hpp:52` leaves `TBB_PARALLEL`
  undefined.
* Neither are the locks of the pool singletons, a `virtual_alloc` that fails under a page
  pool (no caller looks at it; `BigPool` has it), nor how `memory_pool` tells a small
  block from a large one.
* `LDSampler`'s division into strips, which nothing calls, and `min_fraction`, which
  matters above 32768 pixels only.
* `pipeline`, `clpbr`, `eop`, `fp` and the vendored libraries are not part of the
  renderer.

Some hazards of PROJECT.json have no property. A lost client takes its windows with it, one whose script fails
answers nothing or renders an old scene, and after a failed accept nobody can join: each is an action of `RenderFarm`, and the safety properties
are checked with it; that scenes end, or that all samples are of the front scene, does not hold then, and nothing in the repository promises
it. The node of the small free list that `big_memory_pool` writes into a region's last block, however short that
is, may be larger than the block: blocks have no contents in `BigPool`, which covers the splits only.
