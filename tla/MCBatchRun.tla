---------------------------- MODULE MCBatchRun ----------------------------
(* An instance of BatchRun for TLC: three files, two policies.  The file   *)
(* of the first policy's conversion loses its path to the second; the film *)
(* in HEVC meets each skip_when; the third is unknown to the library.      *)
EXTENDS BatchRun

Film(container, codec, height) ==
    [video |-> [codec |-> codec, height |-> height, duration |-> 90],
     audio |-> {"aac"}, subtitles |-> {"eng"}, container |-> container, size |-> 3]

MCMedia == <<Film("mkv", "h264", 1080), Film("mp4", "x265", 720), Film("mkv", "h264", 720)>>
MCUnscanned == {3}
MCCodecAlias == [h264 |-> "h264", hevc |-> "hevc", x265 |-> "hevc"]

Plain == [name |-> "plain", dependsOn |-> {}, ifModified |-> None, ifCompleted |-> None,
          skipWhen |-> None, onError |-> None, effect |-> <<>>]

Encode == [Plain EXCEPT !.name = "encode",
             !.skipWhen = [mode |-> "all", videoCodec |-> {"hevc"}, resolutionUnder |-> 1080],
             !.effect = [video |-> [codec |-> "hevc", height |-> 720, duration |-> 90]]]
Convert == [Plain EXCEPT !.name = "convert", !.dependsOn = {"encode"}, !.onError = "skip",
              !.skipWhen = [mode |-> "any", container |-> {"mp4"}, sizeUnder |-> 2],
              !.effect = [container |-> "mp4"]]
Verify == [Plain EXCEPT !.name = "verify", !.ifModified = "encode", !.dependsOn = {"encode"}]
Publish == [Plain EXCEPT !.name = "publish", !.ifCompleted = "verify", !.dependsOn = {"verify"}]

Override(phase, mode) == [phase EXCEPT !.onError = mode]

MCPolicies ==
    <<[onError |-> "continue", phases |-> <<Override(Encode, "skip"), Convert>>],
      [onError |-> "fail", phases |-> <<Override(Encode, "continue"), Verify, Publish>>]>>
===========================================================================
