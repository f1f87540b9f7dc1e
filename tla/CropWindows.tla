----------------------------- MODULE CropWindows -----------------------------
(***************************************************************************)
(* One frame as pixels: the server's scan over the image, which cuts it    *)
(* into crop windows, the walk of a client's sampler over a window, and    *)
(* what the server's film does with the samples.  RenderFarm has the same  *)
(* windows as places in a scan, and all samples of one as one message.     *)
(*                                                                         *)
(* Places in the image are in quarters of a pixel.  A sample may be in any *)
(* quarter of its pixel; what it is a sample of is left out.               *)
(***************************************************************************)
EXTENDS Integers, Sequences, FiniteSetsExt

CONSTANTS
  XRes, YRes,      \* x_resolution, y_resolution
  Step,            \* min_w and min_h, in pixels; min_fraction matters above 32768 only
  XWidth, YWidth,  \* xWidth, yWidth of the filter, in quarters of a pixel
  PixelSamples,    \* the sampler's pixelsamples, a power of two
  WriteFrequency,  \* writeFrequency of the film; never reached if negative
  MaxEmpty         \* bound on the windows without extent that are handed out

\* min_w is even.  A filter narrower than half a pixel gives a window without extent
\* no place to sample, and the walk, which compares with the end, does not stop.
ASSUME CropAssumption ==
  /\ {XRes, YRes, Step, PixelSamples} \subseteq Nat \ {0} /\ Step % 2 = 0
  /\ {XWidth, YWidth} \subseteq Nat \ {0, 1, 2}
  /\ WriteFrequency \in Int \ {0} /\ MaxEmpty \in Nat

VARIABLES
  xCuts, yCuts,  \* the crop coordinates that adding steps gives, from 0 to 1
  last,          \* crop_windows_.back(), its bounds as indices of the cuts
  task,          \* what the client has to do
  film,          \* xPixelStart, ... of the client's film
  sampler,       \* x_pixel_start, ..., xPos, yPos, samplePos of its sampler
  taken,         \* history: how many samples of the window were taken
  sample,        \* history: the last sample, and the pixels it was added to
  pixels,        \* the server's film, as the number of samples it was given at each place
  sampleCount,   \* sampleCount of the server's film
  onDisk,        \* history: pixels when the image was written last
  empty          \* how many windows without extent were handed out

serverVars == <<xCuts, yCuts, last, empty>>
clientVars == <<film, sampler, taken>>
imageVars == <<sample, pixels, sampleCount, onDisk>>
vars == <<serverVars, task, clientVars, imageVars>>

-----------------------------------------------------------------------------
\* Quarters to pixels: fistp rounds x + 1/2 and x - 1/2 to the nearest integer, and
\* to the even one of two, so that an odd integer becomes its neighbour.
RoundEven(q) ==
  q \div 4 + (IF q % 4 < 2 THEN 0 ELSE IF q % 4 > 2 THEN 1 ELSE (q \div 4) % 2)
Ceil32(q) == RoundEven(q + 2)
Floor32(q) == RoundEven(q - 2)

\* The coordinates a scan along one side comes to.  A sum of floats may be a little more than
\* the multiple of a step that it stands for, and a little less than one where it should be one.
Inner(res) == {k \in 1 .. res : k * Step < res}
Sums(res) == {[k \in Inner(res) |-> 4 * k * Step + up[k]] : up \in [Inner(res) -> {0, 1}]}
Below(res) == IF Inner(res) # {} /\ res % Step = 0 THEN {<<>>, <<4 * res - 1>>} ELSE {<<>>}
Cuts(res) == {<<0>> \o s \o b \o <<4 * res>> : s \in Sums(res), b \in Below(res)}

\* The filter's reach on a side of length count that begins at start: getSampleExtent.
\* (Mutant first: the filter's reach is forgotten.)
ExtentOfWindow(start, count, width) == <<start, start + count>>
SampleExtent(start, count, width) ==
  <<Floor32(4 * start + 2 - width), Floor32(4 * (start + count) + 2 + width)>>

\* The film's pixels from x0 to x1 for a sample at place x: addSample.
\* (Mutant first: the range is cut to the film only where it overlaps it.)
RasterUnclamped(x, width, start, count) ==
  LET x1 == Floor32(x - 2 + width)
      x0 == Min({Ceil32(x - 2 - width), x1})
  IN Max({x0, start}) .. Min({x1, start + count - 1})
Raster(x, width, start, count) ==
  LET end == start + count - 1
      x1 == Floor32(x - 2 + width)
      x0 == Min({Ceil32(x - 2 - width), x1})
  IN Min({Max({x0, start}), end}) .. Max({Min({x1, end}), start})

\* The server's film is the whole image.
XCount == Ceil32(4 * XRes)
YCount == Ceil32(4 * YRes)
Image == (0 .. XCount - 1) \X (0 .. YCount - 1)

\* The pixels, and those around the image, where samples are taken.
Margin(width) == (width + 2) \div 4
Places ==
  (-Margin(XWidth) .. XCount - 1 + Margin(XWidth)) \X (-Margin(YWidth) .. YCount - 1 + Margin(YWidth))

-----------------------------------------------------------------------------
\* The window after w in the scan, and whether the scan is over with it: then both
\* sides are empty, at the far corner.  (Mutant first: a row begins with its second window.)
XOne == Len(xCuts)
YOne == Len(yCuts)
NextWindowSameRow(w) ==
  LET ymin == IF w.xmax = XOne THEN w.ymax ELSE w.ymin
      xmin == IF w.xmax = XOne /\ ymin < YOne THEN 2 ELSE w.xmax
  IN [xmin |-> xmin, xmax |-> Min({XOne, xmin + 1}), ymin |-> ymin, ymax |-> Min({YOne, ymin + 1})]
NextWindow(w) ==
  LET ymin == IF w.xmax = XOne THEN w.ymax ELSE w.ymin
      xmin == IF w.xmax = XOne /\ ymin < YOne THEN 1 ELSE w.xmax
  IN [xmin |-> xmin, xmax |-> Min({XOne, xmin + 1}), ymin |-> ymin, ymax |-> Min({YOne, ymin + 1})]
NoWindow == [xmin |-> 1, xmax |-> 1, ymin |-> 1, ymax |-> 1]
IsEmpty(w) == w.xmin >= w.xmax /\ w.ymin >= w.ymax
ScanOver == last # NoWindow /\ IsEmpty(NextWindow(last))

\* A sampler at the beginning of its walk.
LDSampler(x, y) ==
  [x |-> x, y |-> y, xPos |-> x[1] - 1, yPos |-> y[1], samplePos |-> PixelSamples]

Init ==
  /\ xCuts \in Cuts(XRes) /\ yCuts \in Cuts(YRes)
  /\ last = NoWindow /\ task = "request" /\ empty = 0
  /\ film = [xStart |-> 0, xCount |-> XCount, yStart |-> 0, yCount |-> YCount]
  /\ sampler = LDSampler(SampleExtent(0, XCount, XWidth), SampleExtent(0, YCount, YWidth))
  /\ taken = 0
  /\ sample = [x |-> 0, y |-> 0, added |-> {}]
  /\ pixels = [p \in Places |-> 0] /\ sampleCount = WriteFrequency
  /\ onDisk = [p \in Places |-> 0]

-----------------------------------------------------------------------------
\* request_render_task is answered with the next window.
GetNextCropWindow ==
  /\ task = "request" /\ ~ScanOver
  /\ last' = IF last = NoWindow THEN [xmin |-> 1, xmax |-> 2, ymin |-> 1, ymax |-> 2]
             ELSE NextWindow(last)
  /\ task' = "render_crop"
  /\ UNCHANGED <<xCuts, yCuts, empty, clientVars, imageVars>>

\* The scan is over, but the node asks for its first window of a frame that the
\* others have gone beyond: it gets one without extent.
GetEmptyWindow ==
  /\ task = "request" /\ ScanOver /\ empty < MaxEmpty
  /\ last' = NextWindow(last)
  /\ task' = "render_crop" /\ empty' = empty + 1
  /\ UNCHANGED <<xCuts, yCuts, clientVars, imageVars>>

\* The scan is over and the node has rendered: the frame ends, and its image is written
\* (the messages in between are in RenderFarm).
EndFrame ==
  /\ task = "request" /\ ScanOver
  /\ task' = "end_frame" /\ onDisk' = pixels
  /\ UNCHANGED <<serverVars, clientVars, sample, pixels, sampleCount>>

\* The client's renderCropWindow resets its film to the window and its sampler
\* to what the film's filter reaches.  (Mutant first: the walk is not reset.)
KeepWalk(x, y) == [sampler EXCEPT !.x = x, !.y = y, !.samplePos = PixelSamples]
ResetWalk(x, y) == LDSampler(x, y)
RenderCropWindow ==
  LET xStart == Ceil32(xCuts[last.xmin])
      xCount == Ceil32(xCuts[last.xmax]) - xStart
      yStart == Ceil32(yCuts[last.ymin])
      yCount == Ceil32(yCuts[last.ymax]) - yStart
  IN /\ task = "render_crop"
     /\ film' = [xStart |-> xStart, xCount |-> xCount, yStart |-> yStart, yCount |-> yCount]
     /\ sampler' = ResetWalk(SampleExtent(xStart, xCount, XWidth), SampleExtent(yStart, yCount, YWidth))
     /\ task' = "sample" /\ taken' = 0
     /\ UNCHANGED <<serverVars, imageVars>>

-----------------------------------------------------------------------------
\* getNextSample goes to the next pixel when it has given all samples of this one.
Advances == sampler.samplePos = PixelSamples
EndOfRow == Advances /\ sampler.xPos + 1 = sampler.x[2]
XPos ==
  IF EndOfRow THEN sampler.x[1] ELSE IF Advances THEN sampler.xPos + 1 ELSE sampler.xPos
YPos == IF EndOfRow THEN sampler.yPos + 1 ELSE sampler.yPos
WalkEnds == Advances /\ YPos = sampler.y[2]

\* add_sample on the server's film, for a sample at x, y.
AddSample(x, y) ==
  LET added == Raster(x, XWidth, 0, XCount) \X Raster(y, YWidth, 0, YCount)
      place == <<x \div 4, y \div 4>>
  IN /\ sample' = [x |-> x, y |-> y, added |-> added]
     /\ pixels' = [pixels EXCEPT ![place] = @ + 1]
     /\ IF sampleCount = 1
          THEN sampleCount' = WriteFrequency /\ onDisk' = pixels'
          ELSE sampleCount' = sampleCount - 1 /\ onDisk' = onDisk

\* getNextSample, and what becomes of the sample.
NextSample ==
  /\ task = "sample" /\ ~WalkEnds
  /\ sampler' = [sampler EXCEPT !.xPos = XPos, !.yPos = YPos,
                                !.samplePos = IF Advances THEN 1 ELSE @ + 1]
  /\ taken' = taken + 1
  /\ \E u, v \in 0 .. 3 : AddSample(4 * XPos + u, 4 * YPos + v)
  /\ UNCHANGED <<serverVars, task, film>>

\* getNextSample returns false: the client sends write_image and asks for more.
WindowDone ==
  /\ task = "sample" /\ WalkEnds
  /\ sampler' = [sampler EXCEPT !.xPos = XPos, !.yPos = YPos]
  /\ task' = "request" /\ onDisk' = pixels
  /\ UNCHANGED <<serverVars, film, taken, sample, pixels, sampleCount>>

Next ==
  \/ GetNextCropWindow \/ GetEmptyWindow \/ EndFrame
  \/ RenderCropWindow \/ NextSample \/ WindowDone

Spec == Init /\ [][Next]_vars

-----------------------------------------------------------------------------
\* The places whose samples the filter may add to a pixel of one side.
Reach(p, width) == (4 * p + 3 - width) \div 4 .. (4 * p + 1 + width) \div 4

\* Away from where windows meet: no other window's samples reach there.
FarFromCuts(p, cuts, width) ==
  \A i \in 2 .. Len(cuts) :
    LET cut == Ceil32(cuts[i])
    IN p < cut - Margin(width) \/ p >= cut + Margin(width)

\* When the frame ends, its image is on disk with samples at every place that a pixel of it
\* needs samples from, however the sums of floats were rounded; and with no
\* sample twice, but where windows meet or at the far corner.
FrameComplete ==
  task = "end_frame" =>
    /\ onDisk = pixels
    /\ \A p \in Image :
         \A q \in Reach(p[1], XWidth) \X Reach(p[2], YWidth) :
           /\ pixels[q] >= PixelSamples
           /\ FarFromCuts(q[1], xCuts, XWidth) /\ FarFromCuts(q[2], yCuts, YWidth)
                => pixels[q] = PixelSamples

\* A sample is added to all pixels it is nearer to than the filter's width, but for
\* one that no pixel of the film is near: the pixels of the edge get that.
AddedWithinReach ==
  LET Nearest(x, count) == IF x < 2 THEN 0 ELSE count - 1
      Near(x, width, count) == {p \in 0 .. count - 1 : 4 * p + 2 - x \in 1 - width .. width - 1}
      Within(S, x, width, count) ==
        IF Near(x, width, count) = {} THEN S = {Nearest(x, count)}
        ELSE /\ Near(x, width, count) \subseteq S
             /\ S \subseteq Near(x, width + 1, count)
  IN taken > 0 =>
       /\ Within({p[1] : p \in sample.added}, sample.x, XWidth, XCount)
       /\ Within({p[2] : p \in sample.added}, sample.y, YWidth, YCount)

\* The sampler gives as many samples as totalSamples() says, all within its bounds, whatever
\* the window it walked over before.
WalksOnce ==
  LET total == PixelSamples * (sampler.x[2] - sampler.x[1]) * (sampler.y[2] - sampler.y[1])
  IN /\ taken <= total
     /\ task = "sample" /\ WalkEnds => taken = total
     /\ task = "sample" /\ taken > 0 =>
          /\ sampler.xPos \in sampler.x[1] .. sampler.x[2] - 1
          /\ sampler.yPos \in sampler.y[1] .. sampler.y[2] - 1

=============================================================================
