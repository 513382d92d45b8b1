-------------------------------- MODULE MC_PMM -------------------------------
EXTENDS PMM

\* Frames of 2 bytes, a bitmap of 8 frames, 14 bytes of memory: 7 frames.
MCFrameSize == 2
MCMaxFrames == 8
MCMemTop == 14
\* Low memory (frame 0), the kernel image (frames 2-3) and a module that
\* runs past the end of memory (frame 6, clamped).
MCRegions == {<<0, 2>>, <<5, 7>>, <<13, 20>>}
\* Page tables below a low bound (frames 0-3), and a bound past the end.
MCBelowLimits == {8, 40}
=============================================================================
