\* README.md: the NDK is for Android targets.
SPECIFICATION Spec
PROPERTIES NdkForAndroidOnly
