---------------------------- MODULE MCImagesTab ----------------------------
(* Two photos on the site and one file to upload, with another             *)
(* administrator who uploads, reorders and deletes.                        *)
EXTENDS ImagesTab

MCImage == 1..3
MCOnSite == 1..2
MCCaller == File \cup Image \cup Other \cup Button
=============================================================================
