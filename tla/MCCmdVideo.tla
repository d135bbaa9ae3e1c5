----------------------------- MODULE MCCmdVideo ------------------------------
(* Four video BIOSes: one without VESA; one with the 320x200 modes, the list *)
(* in the buffer 4F01 overwrites; one whose exact match is a mode without a  *)
(* linear framebuffer; one with more modes than the copy holds, whose large  *)
(* mode fits the colour buffer and not the depth buffer.                     *)
EXTENDS CmdVideo, TLC

All  == {"supported", "graphics", "linear"}
Rgb8 == <<<<16, 8>>, <<8, 8>>, <<0, 8>>>>
R565 == <<<<11, 5>>, <<5, 6>>, <<0, 5>>>>
Listing(attributes, model, width, height, bpp, rgb, fb) ==
  [answers |-> TRUE, attributes |-> attributes, model |-> model,
   mode |-> Mode("vbe", fb, width, height, width * (bpp \div 8) + 64, bpp, rgb)]

M32   == Listing(All, "direct", 320, 200, 32, Rgb8, 8388608)
M24   == Listing(All, "direct", 320, 200, 24, Rgb8, 8388608)
M16   == Listing(All, "direct", 320, 200, 16, R565, 8388608)
M8    == Listing(All, "packed", 320, 200, 8, NoRgb, 8388608)
M32W  == Listing(All \ {"linear"}, "direct", 320, 200, 32, Rgb8, 8388608)
M16L  == Listing(All, "direct", 640, 400, 16, R565, 8388608)
NoFb  == Listing(All, "direct", 640, 400, 32, Rgb8, 0)
Mute  == [M32 EXCEPT !.answers = FALSE]
Planar == [M8 EXCEPT !.model = "planar"]

MCBioses == {
  [vesa |-> FALSE, list |-> <<M32>>, inBlock |-> FALSE],
  [vesa |-> TRUE, list |-> <<M16, M32, M8>>, inBlock |-> TRUE],
  [vesa |-> TRUE, list |-> <<M32W, M24, Mute>>, inBlock |-> FALSE],
  [vesa |-> TRUE, list |-> <<Planar, M16L, NoFb, M32>>, inBlock |-> FALSE] }

Size(width, height, bpp) == [word |-> "size", width |-> width, height |-> height, bpp |-> bpp]
Word(word) == [word |-> word, width |-> 0, height |-> 0, bpp |-> 0]

\* 0x5 is vga13 too; W32 + 320 wraps around to 320; 264 bits are cut to 8.
MCSpecs == { Word("text"), Word("vga13"), Word("other"), Size(0, 5, 32),
             Size(320, 200, 32), Size(320, 200, 264), Size(640, 400, 16),
             Size(640, 400, 32), Size(W32 + 320, 200, 24) }

MCColours == { <<255, 128, 63>>, <<31, 224, 192>> }

\* No memory above 1 MiB, or room for four buffers of 320x200.
MCMaps == { <<[base |-> 0, length |-> 654336, usable |-> TRUE]>>,
            <<[base |-> 1048576, length |-> 1200000, usable |-> TRUE]>> }
==============================================================================
