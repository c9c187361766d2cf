------------------------- MODULE MCDownloadProgress -------------------------
EXTENDS DownloadProgress

\* Bodies up to 12 bytes: chunkings that cross several marks in one Read,
\* reads smaller than one percent step, and lengths that do not divide 100.
MCMaxLength == 12
====
