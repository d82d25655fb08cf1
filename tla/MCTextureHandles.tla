-------------------------- MODULE MCTextureHandles --------------------------
(* Small instances of TextureCapture and TextureHandles. *)
EXTENDS TextureHandles
=============================================================================
