--------------------------- MODULE CodeEditorClaims ---------------------------
(* What the console's help says of the code editor.                        *)
EXTENDS CodeEditor

(* "Version History lets you view earlier versions (read-only) and restore *)
(* one to keep editing" (apps/console/HELP.md:50): Edit this version keeps *)
(* the text that was shown.                                                *)
EditKeepsShownVersion == [][EditThisVersion => ed'.text = ed.text]_editorVars
=============================================================================
