----------------------------- MODULE MCFirmware -----------------------------
(* Small instances of FirmwareFlow for TLC. *)
EXTENDS FirmwareFlow

Track(title, art) ==
  [title |-> title, art |-> art, playback |-> "Playing", elapsed |-> 0,
   duration |-> 0, volume |-> 0]

(* Two albums, and a track without a cover. *)
MCQueue == <<Track("t1", "u1"), Track("t2", "u2"), Track("t3", NoUri)>>

MCPinList == [slot \in Slots |-> [id |-> slot, title |-> "p1", art |-> "u2"]]
MCPinStarts == [slot \in Slots |-> 1]
=============================================================================
