------------------------------ MODULE GfxBridge ------------------------------
(***************************************************************************)
(* src/kernel/gfx_bridge.c: the backbuffer the rasterizer draws in, its    *)
(* depth buffer, both from kalloc.c, and the conversion of the backbuffer  *)
(* to the format of the mode on the screen.  One pixel stands for them     *)
(* all: its colour is three 8-bit channels.                                *)
(***************************************************************************)
EXTENDS Kalloc, Video

\* The frame of a mode at 32 bits a pixel is smaller than 4 GiB, below which the
\* frame itself must lie.
FrameFitsIn32(m) == m.width \in Nat /\ m.height \in Nat /\ m.width * m.height * 4 < W32

ASSUME BiosAssumption ==
  /\ FrameFitsIn32(Vga13)
  /\ MaxModes \in Nat
  /\ \A b \in Bioses : Len(b.list) \in Nat /\ \A i \in 1 .. Len(b.list) :
       b.list[i].mode.kind = "vbe" /\ FrameFitsIn32(b.list[i].mode)

\* The channels of a direct-colour pixel of so many bits: nonempty, inside it,
\* and no two on the same bits.
ChannelsApart(rgb, bits) ==
  /\ \A i \in 1 .. 3 : /\ rgb[i][1] \in Nat /\ rgb[i][2] \in 1 .. 8
                       /\ rgb[i][1] + rgb[i][2] <= bits
  /\ \A i, j \in 1 .. 3 :
       i # j => \/ rgb[i][1] + rgb[i][2] <= rgb[j][1]
                \/ rgb[j][1] + rgb[j][2] <= rgb[i][1]

\* So a BIOS describes every mode the bridge can convert to without a palette.
ASSUME ChannelAssumption ==
  \A b \in Bioses : \A i \in 1 .. Len(b.list) :
    LET m == b.list[i].mode IN
    m.bpp \in {15, 16, 24, 32} => ChannelsApart(m.rgb, IF m.bpp = 15 THEN 16 ELSE m.bpp)

VARIABLES
  ready,    \* bridge_ready
  shape,    \* bridge_mode
  colour,   \* bridge_framebuffer.pixels, and
  depth,    \* bridge_depth: addresses, 0 for NULL
  pending,  \* color_memory, while gfx_bridge_init runs
  pixel,    \* the value last written to the pixel of the hardware, or NoPixel
  drawn     \* its colour in the backbuffer then

bridgeVars == <<ready, shape, colour, depth, pending, pixel, drawn>>

NoPixel == 0 - 1   \* no value of the hardware

InitBridge ==
  /\ ready = FALSE /\ shape = Zero /\ colour = 0 /\ depth = 0 /\ pending = 0
  /\ pixel = NoPixel /\ drawn = <<0, 0, 0>>

\* The bytes of either buffer: 4 for a pixel, in a uint32_t.
BufferBytes(m) == (m.width * m.height * 4) % W32

\* What the call of kalloc_pages now would return.
Granted(size) == IF Fits(size) THEN base + offset ELSE 0

\* gfx_bridge_init forgets the old buffers, then asks for a mode with pixels.
BridgeStart(ok) ==
  /\ ok = (current.kind # "text" /\ current.fb # 0 /\ current.width # 0 /\ current.height # 0)
  /\ ready' = FALSE /\ colour' = 0 /\ depth' = 0
  /\ UNCHANGED <<kvars, videoVars, shape, pending, pixel, drawn>>

BridgeColour(ok) ==
  /\ ok = (Granted(BufferBytes(current)) # 0)
  /\ pending' = Granted(BufferBytes(current))
  /\ KallocPages(BufferBytes(current))
  /\ UNCHANGED <<videoVars, ready, shape, colour, depth, pixel, drawn>>

\* Success after the colour buffer alone.
BridgeDepthUnchecked(ok) ==
  /\ ok = TRUE
  /\ KallocPages(BufferBytes(current))
  /\ ready' = TRUE /\ shape' = current /\ colour' = pending
  /\ depth' = Granted(BufferBytes(current))
  /\ pending' = 0
  /\ UNCHANGED <<videoVars, pixel, drawn>>

\* Without a depth buffer it fails, and the colour buffer is not given back.
BridgeDepth(ok) ==
  /\ ok = (Granted(BufferBytes(current)) # 0)
  /\ KallocPages(BufferBytes(current))
  /\ IF ok
     THEN /\ ready' = TRUE /\ shape' = current /\ colour' = pending
          /\ depth' = Granted(BufferBytes(current))
     ELSE UNCHANGED <<ready, shape, colour, depth>>
  /\ pending' = 0
  /\ UNCHANGED <<videoVars, pixel, drawn>>

------------------------------------------------------------------------------
(* gfx_bridge_present *)

\* narrow_channel
Narrow(value, size) == IF size = 0 \/ size >= 8 THEN value ELSE value \div (2 ^ (8 - size))

\* rgba_to_direct: the sum is the bitwise or, because channels do not overlap.
Direct(c) ==
  LET Put(i) == Narrow(c[i], shape.rgb[i][2]) * 2 ^ shape.rgb[i][1]
  IN  Put(1) + Put(2) + Put(3)

\* rgba_to_332
Index332(c) == (c[1] \div 32) * 32 + (c[2] \div 32) * 4 + c[3] \div 64

\* The value present writes for a colour, or the pixel as it was when it cannot
\* convert to the mode's bpp.
Converted(c) ==
  CASE shape.bpp = 8          -> Index332(c)
    [] shape.bpp \in {15, 16} -> Direct(c) % (2 ^ 16)
    [] shape.bpp = 24         -> Direct(c) % (2 ^ 24)
    [] shape.bpp = 32         -> Direct(c)
    [] OTHER                  -> pixel

\* A frame: the pixel is drawn in some colour and presented.
DrawFrame(c) ==
  /\ IF ready THEN drawn' = c /\ pixel' = Converted(c) ELSE UNCHANGED <<drawn, pixel>>
  /\ UNCHANGED <<kvars, videoVars, ready, shape, colour, depth, pending>>

------------------------------------------------------------------------------
(* What the screen shows; external. *)

\* The entry of video_install_332_palette for an index, as 8-bit channels: the
\* DAC keeps 6 bits.
Palette332(index) ==
  LET Six(field, top) == (((field * 255) \div top) \div 4) * 4
  IN  <<Six((index \div 32) % 8, 7), Six((index \div 4) % 8, 7), Six(index % 4, 3)>>

\* A channel of a direct-colour value.
Channel(value, field) == ((value \div (2 ^ field[1])) % (2 ^ field[2])) * 2 ^ (8 - field[2])

Shown == IF adapter.bpp = 8 THEN Palette332(pixel)
         ELSE [i \in 1 .. 3 |-> Channel(pixel, adapter.rgb[i])]

ChannelBits == IF adapter.bpp = 8 THEN <<3, 3, 2>> ELSE [i \in 1 .. 3 |-> adapter.rgb[i][2]]
==============================================================================
