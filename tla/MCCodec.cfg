SPECIFICATION Spec
CONSTANT Frames <- MCFrames
INVARIANTS TypeOK StoresInBounds RoundTrip SizeExact
\* a frame that has been read, or could not be written, is done with
CHECK_DEADLOCK FALSE
