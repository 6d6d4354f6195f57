----------------------------- MODULE MCScheduler -----------------------------
(* A small instance of Scheduler: the async pipeline and a frame pipeline. *)
(* Two tasks are of any kind; a third is called once, without delay, on    *)
(* the pipeline of the frames: the one an erase could skip.                *)
EXTENDS Scheduler, TLC

CONSTANT main

MCPipeline == {async, main}
MCFrames == {main}
MCIntervals == {0, 1}
MCCalls ==
    ({1, 2} \X MCPipeline \X BOOLEAN \X MCIntervals) \cup {<<3, main, TRUE, 0>>}
=============================================================================
