--------------------------- MODULE QpackStaticTable ---------------------------
(***************************************************************************)
(* src/research/qpack_static_table.py: the 99 rows of RFC 9204 Appendix A. *)
(* Row i of the Python tuple is STATIC_TABLE[i + 1] here.  Only the name   *)
(* of a row is kept: the encoder reads STATIC_TABLE[index][0] and never a  *)
(* row's value.                                                            *)
(***************************************************************************)
EXTENDS Naturals, Sequences

STATIC_TABLE ==
    << ":authority", ":path", "age", "content-disposition",
       "content-length", "cookie", "date", "etag", "if-modified-since",
       "if-none-match", "last-modified", "link", "location", "referer",
       "set-cookie", ":method", ":method", ":method", ":method", ":method",
       ":method", ":method", ":scheme", ":scheme", ":status", ":status",
       ":status", ":status", ":status", "accept", "accept",
       "accept-encoding", "accept-ranges", "access-control-allow-headers",
       "access-control-allow-headers", "access-control-allow-origin",
       "cache-control", "cache-control", "cache-control", "cache-control",
       "cache-control", "cache-control", "content-encoding",
       "content-encoding", "content-type", "content-type", "content-type",
       "content-type", "content-type", "content-type", "content-type",
       "content-type", "content-type", "content-type", "content-type",
       "range", "strict-transport-security", "strict-transport-security",
       "strict-transport-security", "vary", "vary",
       "x-content-type-options", "x-xss-protection", ":status", ":status",
       ":status", ":status", ":status", ":status", ":status", ":status",
       ":status", "accept-language", "access-control-allow-credentials",
       "access-control-allow-credentials", "access-control-allow-headers",
       "access-control-allow-methods", "access-control-allow-methods",
       "access-control-allow-methods", "access-control-expose-headers",
       "access-control-request-headers", "access-control-request-method",
       "access-control-request-method", "alt-svc", "authorization",
       "content-security-policy", "early-data", "expect-ct", "forwarded",
       "if-range", "origin", "purpose", "server", "timing-allow-origin",
       "upgrade-insecure-requests", "user-agent", "x-forwarded-for",
       "x-frame-options", "x-frame-options" >>

STATIC_TABLE_SIZE == Len(STATIC_TABLE)

(***************************************************************************)
(* STATIC_TABLE[index][0], the bytes of the name of static row index, for  *)
(* every index.  A static name never travels on the encoder stream (the    *)
(* instruction carries the index), so its bytes matter only through their  *)
(* number, which is the entry size, and through which name they spell.     *)
(* The model keeps both: the name's real length, each byte the first row   *)
(* that has this name (a value below 99, so distinct names differ).        *)
(***************************************************************************)
StaticNames ==
    [index \in 0..STATIC_TABLE_SIZE - 1 |->
        LET name  == STATIC_TABLE[index + 1]
            first == CHOOSE r \in 0..index :
                        /\ STATIC_TABLE[r + 1] = name
                        /\ \A q \in 0..r - 1 : STATIC_TABLE[q + 1] # name
        IN  [k \in 1..Len(name) |-> first]]
=============================================================================
