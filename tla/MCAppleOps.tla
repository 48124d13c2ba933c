---- MODULE MCAppleOps ----
EXTENDS AppleOps
CONSTANTS a, b
MCBatches == {<<a, b>>, <<a>>}
MCSelection == <<a, b>>
MCAlongside == {<<a>>}
====
