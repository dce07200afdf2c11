--------------------------- MODULE MCNativeEngine ---------------------------
\* Three threads: recognitions, catalog jobs and the settings provider.
EXTENDS NativeEngine
=============================================================================
