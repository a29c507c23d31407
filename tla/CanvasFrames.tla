---------------------------- MODULE CanvasFrames ----------------------------
(* One canvas and its 2d context: drawing is recorded as commands over one *)
(* list of path segments, painted when a script reads the canvas back, and *)
(* the painted frame is kept until something is drawn.  A resize only      *)
(* bumps a number; the context finds out when it is read.  Coordinates,    *)
(* colours and the noise of a picture are left out.                        *)
EXTENDS Naturals, Sequences

CONSTANTS Sizes,              \* the values width and height are set to
          Ops, Resizes, Reads \* bounds: calls that draw, resizes, readings

CanvasAssumption == Sizes # {} /\ {Ops, Resizes, Reads} \subseteq Nat

VARIABLES size, epoch,   \* of the element; GEN
          ctx,           \* its context, None before getContext
          picture,       \* the marks the last reading showed
          reads
vars == <<size, epoch, ctx, picture, reads>>

None == [none |-> TRUE]

\* CanvasRaster::new
Blank == [fill |-> "black", cmds |-> <<>>, segs |-> <<>>, base |-> 0, pen |-> FALSE, start |-> FALSE]
Context == [epoch |-> epoch, ops |-> 0, raster |-> Blank, key |-> None, buf |-> <<>>]

\* build_path: a command's segments, as Cmd::apply slices them
PathOf(raster, c) == [i \in 1 .. c.len |-> raster.segs[c.start + i]]
Render(raster) ==
  [i \in DOMAIN raster.cmds |->
     LET c == raster.cmds[i] IN [paint |-> c.paint, at |-> c.at, path |-> PathOf(raster, c)]]

Init == /\ size \in Sizes /\ epoch = 1
        /\ ctx = None /\ picture = <<>> /\ reads = 0

----------------------------------------------------------------------------
(* Drawing.  Every call is hashed and drops the frame that was kept, the   *)
(* ones that draw nothing too; coordinates that are not finite reach the   *)
(* hash but not the raster.                                                *)
Op(raster) == /\ ctx # None /\ ctx.ops < Ops
              /\ ctx' = [ctx EXCEPT !.ops = @ + 1, !.key = None, !.raster = raster]
              /\ UNCHANGED <<size, epoch, picture, reads>>

Command(paint, from, len) ==
  [ctx.raster EXCEPT !.cmds = Append(@, [paint |-> paint, at |-> epoch, start |-> from, len |-> len])]

Mark == ctx # None /\ Op(ctx.raster)

\* fillRect, strokeRect, clearRect, fillText, strokeText
Shape == ctx # None /\ \E paint \in {ctx.raster.fill, "clear"} : Op(Command(paint, 0, 0))

\* Mutant: a new path starts at the first segment there is.
BeginPathAnew == ctx # None /\ Op([ctx.raster EXCEPT !.segs = <<>>, !.pen = FALSE, !.start = FALSE])

BeginPath == /\ ctx # None
             /\ Op([ctx.raster EXCEPT !.segs = SubSeq(@, 1, ctx.raster.base), !.pen = FALSE, !.start = FALSE])

ClosePath == /\ ctx # None
             /\ Op(IF ctx.raster.start THEN [ctx.raster EXCEPT !.segs = Append(@, "close"), !.pen = TRUE]
                   ELSE ctx.raster)

MoveTo == ctx # None /\ Op([ctx.raster EXCEPT !.segs = Append(@, "move"), !.pen = TRUE, !.start = TRUE])

\* what follows the pen: lineTo, arcTo, and the curves, which move there first
To(raster, seg) == [raster EXCEPT
                      !.segs = IF raster.pen THEN Append(@, seg)
                               ELSE @ \o (IF seg = "line" THEN <<"move">> ELSE <<"move", seg>>),
                      !.pen = TRUE, !.start = @ \/ ~raster.pen]
LineTo == ctx # None /\ Op(To(ctx.raster, "line"))
CurveTo == ctx # None /\ Op(To(ctx.raster, "curve"))

\* push_ellipse: to the first point, then as many curves as the sweep has quarters
Ellipse == /\ ctx # None
           /\ \E n \in 0 .. 1 :
                Op([To(ctx.raster, "line") EXCEPT !.segs = @ \o [i \in 1 .. n |-> "curve"],
                                                  !.start = TRUE])

\* push_path_cmd, of fill and stroke: what is painted is no longer the current path
Paint == /\ ctx # None
         /\ LET r == ctx.raster
            IN  Op(IF r.segs = <<>> THEN r
                   ELSE [Command(r.fill, r.base, Len(r.segs) - r.base) EXCEPT !.base = Len(r.segs)])

\* fillStyle and its like change the hash without dropping the frame
SetStyle == /\ ctx # None /\ ctx.raster.fill # "red"
            /\ ctx' = [ctx EXCEPT !.raster.fill = "red"]
            /\ UNCHANGED <<size, epoch, picture, reads>>

----------------------------------------------------------------------------
GetContext == /\ ctx = None /\ ctx' = Context
              /\ UNCHANGED <<size, epoch, picture, reads>>

\* set_width, set_height: to the same value too
Resize == /\ epoch <= Resizes /\ epoch' = epoch + 1
          /\ size' \in Sizes
          /\ picture' = <<>>
          /\ UNCHANGED <<ctx, reads>>

\* render_synced, getImageData: a context of another epoch starts over
Synced == IF ctx.epoch = epoch THEN ctx ELSE [ctx EXCEPT !.raster = Blank, !.key = None, !.epoch = epoch]

\* Canvas2DState::frame
Framed(c) == IF c.key = [epoch |-> c.epoch, size |-> size] THEN c
             ELSE [c EXCEPT !.buf = Render(c.raster), !.key = [epoch |-> c.epoch, size |-> size]]

Reading == reads < Reads /\ reads' = reads + 1 /\ UNCHANGED <<size, epoch>>

\* toDataURL, toBlob; a canvas without a context shows nothing
ToDataUrl == /\ Reading
             /\ ctx' = IF ctx = None THEN None ELSE Framed(Synced)
             /\ picture' = IF ctx = None THEN <<>> ELSE ctx'.buf

\* painted anew each time, beside the frame that is kept
GetImageData == /\ Reading /\ ctx # None
                /\ ctx' = Synced
                /\ picture' = Render(Synced.raster)

Next == \/ Mark \/ Shape \/ BeginPath \/ ClosePath \/ MoveTo \/ LineTo \/ CurveTo \/ Ellipse \/ Paint
        \/ SetStyle \/ GetContext \/ Resize \/ ToDataUrl \/ GetImageData
Spec == Init /\ [][Next]_vars
----------------------------------------------------------------------------
TypeOK == /\ size \in Sizes /\ epoch \in 1 .. Resizes + 1 /\ reads \in 0 .. Reads
          /\ ctx # None => ctx.ops \in 0 .. Ops /\ ctx.epoch \in 1 .. epoch

(* Every recorded path lies in the segments, apart from the others and     *)
(* from the path being drawn: the slices of Cmd::apply cannot fail, and a  *)
(* path that begins takes nothing from one that was painted                *)
(* (canvas.rs:344-352, 534-538, 661-672).                                  *)
PathsWhole ==
  ctx # None =>
    LET r == ctx.raster
    IN  /\ r.base <= Len(r.segs)
        /\ \A i \in DOMAIN r.cmds : r.cmds[i].start + r.cmds[i].len <= r.base
        /\ \A i, j \in DOMAIN r.cmds :
             i < j /\ r.cmds[i].len > 0 /\ r.cmds[j].len > 0 => r.cmds[i].start + r.cmds[i].len <= r.cmds[j].start

(* The frame that is kept is the one the commands paint now                *)
(* (canvas2d.rs:66-78).                                                    *)
FrameFresh == ctx # None /\ ctx.key # None => ctx.buf = Render(ctx.raster)

(* A reading shows nothing that was drawn before the canvas was resized    *)
(* (canvas2d.rs:920-935).                                                  *)
OldGone == \A i \in DOMAIN picture : picture[i].at = epoch

CanvasSound == PathsWhole /\ FrameFresh /\ OldGone
=============================================================================
