---------------------------- MODULE ShardFormat ----------------------------
(***************************************************************************)
(* Lengths, in bytes, of file containers and shards                        *)
(* (shards/filecontainer.go, shardscontainer.go, reedSolomon.go).  The     *)
(* upload wraps a file in a container, the container is cut into shares,   *)
(* and the download gets back a container with padding at its end, from    *)
(* which it has to find the file by lengths alone.                         *)
(***************************************************************************)
EXTENDS Integers

Code == {"mxor", "bors", "aors"}      \* the shard container types

(* Bug: rounded down.                                                      *)
RoundedDown(n, k) == n \div k

(* Rounded up: DivideRoundUp, GetReedSolomonShareSize.                     *)
ShareSize(n, k) == (n + k - 1) \div k

RoundUp(n, multiple) == ShareSize(n, multiple) * multiple

-----------------------------------------------------------------------------
(* File containers: "bo" browser and "ao" archive optimized                *)

ContainerType(code) == IF code = "aors" THEN "ao" ELSE "bo"

CRC32Len == 4
RedundancyLen == 4
ArchonSignatureLen == 65

HdrLen(fct) == IF fct = "ao" THEN 4 + 1 + CRC32Len ELSE 4
TaiLen(fct) == (IF fct = "ao" THEN CRC32Len ELSE RedundancyLen) + ArchonSignatureLen

(* CreateContainerBytes: one byte of parity for 25 of an archive's file.   *)
ContainerLen(fct, size) ==
    HdrLen(fct) + size + (IF fct = "ao" THEN ShareSize(size, 25) ELSE 0) + TaiLen(fct)

PayLoadEnd(fct, len) ==
    IF fct = "ao" THEN len - ShareSize(len - HdrLen(fct) - TaiLen(fct), 26) - TaiLen(fct)
    ELSE len - TaiLen(fct)

(* How much GetOriginalDataFromContainer hands out.                        *)
OriginalLen(fct, len) == PayLoadEnd(fct, len) - HdrLen(fct)

-----------------------------------------------------------------------------
(* Shards of a container of len bytes, of which needed reconstruct it      *)

(* The data of a shard, and what follows its header up to the signature.   *)
ShardPayloadLen(code, len, needed) ==
    IF code = "mxor" THEN RoundUp(len, 6) \div 2 ELSE ShareSize(len, needed)

GetShardDataLen(code, len, needed) ==
    LET l == ShardPayloadLen(code, len, needed) IN
    IF code = "aors" THEN l + ShareSize(l, 25) + 4 ELSE l

(* WriteShardContainer, between the header and the signature.              *)
WrittenLen(code, dataLen) ==
    IF code = "aors" THEN dataLen + ShareSize(dataLen, 25) + CRC32Len ELSE dataLen

(* What decoding that many shares leaves, the padding included.            *)
DecodedLen(code, len, needed) ==
    (IF code = "mxor" THEN 2 ELSE needed) * ShardPayloadLen(code, len, needed)

=============================================================================
