------------------------------- MODULE MCPipeline ------------------------------
(* The boundaries of Pipeline for TLC. *)
EXTENDS Pipeline

\* Below and at an IP header; the last length zstd is called for and the first it
\* is not; the last and first around the limit of UDP, of storing and of tun_read;
\* and one within a tag of it.
MCLengths == {1, 19, 20, 65213, 65214, 65470, 65471, 65499, 65500, 65504, 65505, 65515}

\* The best and the worst of zstd, and what is next to the length of a packet.
MCCompressedLengths == {1, 19, 65212, 65213, 65499}

\* Empty, one short of header and tag, just those, and the longest there is.
MCStrayLengths == {0, 31, 32, 65507}
===============================================================================
